---------------------------- MODULE Spec2Model ----------------------------
(***************************************************************************)
(* Model of the conversation orchestrator of advocadia-wIA                 *)
(* (app/services/orchestration_service.py, app/services/firebase_service.py)*)
(*                                                                         *)
(* Text is modelled character by character: a message is a tuple of        *)
(* one-character atoms.  Accented letters are written as two-symbol ASCII  *)
(* atoms ("a'" is a-acute, "c," is c-cedilla, "a~" is a-tilde, "e^" is     *)
(* e-circumflex, ...); each is ONE character of the text.  Prompts and     *)
(* canned replies are opaque strings (ASCII transliterations of the        *)
(* Portuguese originals); a returned text is the tuple of its pieces.      *)
(***************************************************************************)
EXTENDS Integers, Sequences, FiniteSets, TLC

(***************************************************************************)
(* Bounds of the model.                                                    *)
(***************************************************************************)
\* number of orchestrator calls (process_message, submit_phone) in one run
MaxCalls == 2

(***************************************************************************)
(* Python string primitives used by the orchestrator.                      *)
(***************************************************************************)
UpperChars == <<"A","B","C","D","E","F","G","H","I","J","K","L","M",
                "N","O","P","Q","R","S","T","U","V","W","X","Y","Z">>
LowerChars == <<"a","b","c","d","e","f","g","h","i","j","k","l","m",
                "n","o","p","q","r","s","t","u","v","w","x","y","z">>
DigitChars == {"0","1","2","3","4","5","6","7","8","9"}
SpaceChars == {" "}

\* str.lower() on one character
LowerChar(c) ==
    IF \E i \in 1..Len(UpperChars) : UpperChars[i] = c
    THEN LowerChars[CHOOSE i \in 1..Len(UpperChars) : UpperChars[i] = c]
    ELSE c

\* str.upper() on one character
UpperChar(c) ==
    IF \E i \in 1..Len(LowerChars) : LowerChars[i] = c
    THEN UpperChars[CHOOSE i \in 1..Len(LowerChars) : LowerChars[i] = c]
    ELSE c

\* str.lower()
Lower(s) == [i \in 1..Len(s) |-> LowerChar(s[i])]

\* str.strip(): drop leading and trailing whitespace
Strip(s) ==
    LET idx == {i \in 1..Len(s) : s[i] \notin SpaceChars}
    IN  IF idx = {} THEN <<>>
        ELSE LET lo == CHOOSE i \in idx : \A j \in idx : i <= j
                 hi == CHOOSE i \in idx : \A j \in idx : j <= i
             IN  SubSeq(s, lo, hi)

\* `sub in s` for strings
Contains(s, sub) ==
    \E i \in 0..(Len(s) - Len(sub)) :
        \A j \in 1..Len(sub) : s[i + j] = sub[j]

\* s.startswith(prefix)
StartsWith(s, prefix) ==
    /\ Len(prefix) <= Len(s)
    /\ \A j \in 1..Len(prefix) : s[j] = prefix[j]

\* ''.join(filter(str.isdigit, s))
OnlyDigits(s) == SelectSeq(s, LAMBDA c : c \in DigitChars)

\* str.split(): the maximal runs of non-whitespace characters, in order
RECURSIVE SplitFrom(_, _, _)
SplitFrom(s, i, word) ==
    IF i > Len(s)
    THEN IF word = <<>> THEN <<>> ELSE <<word>>
    ELSE IF s[i] \in SpaceChars
         THEN IF word = <<>> THEN SplitFrom(s, i + 1, <<>>)
              ELSE <<word>> \o SplitFrom(s, i + 1, <<>>)
         ELSE SplitFrom(s, i + 1, Append(word, s[i]))

Split(s) == SplitFrom(s, 1, <<>>)

\* str.capitalize(): first character upper-cased, the rest lower-cased
Capitalize(w) ==
    [i \in 1..Len(w) |-> IF i = 1 THEN UpperChar(w[i]) ELSE LowerChar(w[i])]

\* " ".join(words)
RECURSIVE JoinWords(_)
JoinWords(ws) ==
    IF ws = <<>> THEN <<>>
    ELSE IF Len(ws) = 1 THEN ws[1]
    ELSE ws[1] \o <<" ">> \o JoinWords(Tail(ws))

\* the characters of a text written back as one string
RECURSIVE Str(_)
Str(s) == IF s = <<>> THEN "" ELSE s[1] \o Str(Tail(s))


(***************************************************************************)
(* Inbound messages.  A message is named by its text; MessageText gives    *)
(* its characters.                                                         *)
(***************************************************************************)
Messages == {"Maria Silva", "penal", "contrato", "socorro", "quanto custa?",
             "oi", "sim", "preciso de ajuda", "11987654321", "123"}

\* the texts submitted as a phone number (submit-phone route)
PhoneInputs == {"1198765432", "11987654321", "(11) 98765-4321", "551198765432",
                "5511987654321", "1234567890123", "12345678901234", "123"}

MessageText(m) ==
    CASE m = "Maria Silva" -> <<"M","a","r","i","a"," ","S","i","l","v","a">>
      [] m = "penal" -> <<"p","e","n","a","l">>
      [] m = "contrato" -> <<"c","o","n","t","r","a","t","o">>
      [] m = "socorro" -> <<"s","o","c","o","r","r","o">>
      [] m = "quanto custa?" -> <<"q","u","a","n","t","o"," ","c","u","s","t","a","?">>
      [] m = "fui demitido" -> <<"f","u","i"," ","d","e","m","i","t","i","d","o">>
      [] m = "11987654321" -> <<"1","1","9","8","7","6","5","4","3","2","1">>
      [] m = "1198765432" -> <<"1","1","9","8","7","6","5","4","3","2">>
      [] m = "5511987654321" -> <<"5","5","1","1","9","8","7","6","5","4","3","2","1">>
      [] m = "551198765432" -> <<"5","5","1","1","9","8","7","6","5","4","3","2">>
      [] m = "1234567890123" -> <<"1","2","3","4","5","6","7","8","9","0","1","2","3">>
      [] m = "12345678901234" -> <<"1","2","3","4","5","6","7","8","9","0","1","2","3","4">>
      [] m = "(11) 98765-4321" -> <<"(","1","1",")"," ","9","8","7","6","5","-","4","3","2","1">>
      [] m = "123" -> <<"1","2","3">>
      [] m = "oi" -> <<"o","i">>
      [] m = "sim" -> <<"s","i","m">>
      [] m = "preciso de ajuda" -> <<"p","r","e","c","i","s","o"," ","d","e"," ","a","j","u","d","a">>

(***************************************************************************)
(* _is_phone_number                                                        *)
(***************************************************************************)
_is_phone_number(message) ==
    LET clean_message == OnlyDigits(message)
    IN  Len(clean_message) >= 10 /\ Len(clean_message) <= 13

(***************************************************************************)
(* _get_off_topic_response: the canned reply for a message, or None.       *)
(* The pattern table is a dict literal; it is walked in insertion order    *)
(* and the first pattern with a keyword inside the lower-cased message     *)
(* wins.                                                                   *)
(***************************************************************************)
None == "None"

off_topic_patterns == <<
    [keywords |-> <<<<"q","u","a","n","t","o"," ","c","u","s","t","a">>, <<"p","r","e","c,","o">>, <<"v","a","l","o","r">>, <<"c","u","s","t","o">>, <<"h","o","n","o","r","a'","r","i","o">>, <<"c","o","b","r","a","n","c,","a">>>>,
     response |-> "Entendo sua preocupacao sobre valores, mas vamos primeiro coletar suas informacoes. Discutiremos isso depois."],
    [keywords |-> <<<<"q","u","e","m"," ","v","a","i">>, <<"q","u","a","l"," ","a","d","v","o","g","a","d","o">>, <<"q","u","e","m"," ","m","e"," ","a","j","u","d","a">>, <<"q","u","e","m"," ","a","t","e","n","d","e">>>>,
     response |-> "Um advogado especializado ira atende-lo apos coletarmos seus dados. Vamos continuar."],
    [keywords |-> <<<<"q","u","a","n","d","o">>, <<"q","u","e"," ","h","o","r","a","s">>, <<"h","o","r","a'","r","i","o">>, <<"p","r","a","z","o">>, <<"d","e","m","o","r","a">>>>,
     response |-> "Sobre prazos e horarios, nossa equipe explicara tudo depois. Vamos finalizar seu cadastro primeiro."],
    [keywords |-> <<<<"o","n","d","e">>, <<"e","n","d","e","r","e","c,","o">>, <<"l","o","c","a","l","i","z","a","c,","a~","o">>, <<"e","s","c","r","i","t","o'","r","i","o">>>>,
     response |-> "Informacoes sobre localizacao serao fornecidas em breve. Vamos continuar com suas informacoes."],
    [keywords |-> <<<<"c","o","m","o"," ","f","u","n","c","i","o","n","a">>, <<"c","o","m","o"," ","e'">>, <<"p","r","o","c","e","s","s","o">>, <<"p","r","o","c","e","d","i","m","e","n","t","o">>>>,
     response |-> "Explicaremos todo o processo depois. Agora vamos focar em conhecer sua situacao."],
    [keywords |-> <<<<"c","o","m","o"," ","v","a","i">>, <<"t","u","d","o"," ","b","e","m">>, <<"b","o","a"," ","t","a","r","d","e">>, <<"b","o","a"," ","n","o","i","t","e">>, <<"o","b","r","i","g","a","d","o">>, <<"v","a","l","e","u">>>>,
     response |-> "Obrigado! Vamos continuar com o atendimento."],
    [keywords |-> <<<<"e","x","p","e","r","i","e^","n","c","i","a">>, <<"f","o","r","m","a","c,","a~","o">>, <<"e","s","p","e","c","i","a","l","i","s","t","a">>, <<"q","u","a","l","i","f","i","c","a","c,","a~","o">>>>,
     response |-> "Nossa equipe e altamente qualificada. Vamos primeiro entender seu caso."],
    [keywords |-> <<<<"t","a","x","a"," ","d","e"," ","s","u","c","e","s","s","o">>, <<"q","u","a","n","t","o","s"," ","c","a","s","o","s">>, <<"r","e","s","u","l","t","a","d","o","s">>>>,
     response |-> "Temos otimos resultados, mas cada caso e unico. Vamos conhecer o seu primeiro."],
    [keywords |-> <<<<"u","r","g","e","n","t","e">>, <<"r","a'","p","i","d","o">>, <<"e","m","e","r","g","e^","n","c","i","a">>, <<"p","r","e","s","s","a">>>>,
     response |-> "Entendemos a urgencia. Para agilizar, vamos completar suas informacoes rapidamente."]
>>

\* the bare tokens of the short-message check (line 209)
ShortTokens == <<<<"o","i">>, <<"o","l","a'">>, <<"o","k">>, <<"s","i","m">>, <<"n","a~","o">>>>

\* any(x in text for x in words)
AnyIn(text, words) == \E i \in 1..Len(words) : Contains(text, words[i])

_get_off_topic_response(message, current_step) ==
    LET message_lower == Lower(Strip(message))
        hits == {i \in 1..Len(off_topic_patterns) :
                    AnyIn(message_lower, off_topic_patterns[i].keywords)}
    IN  IF hits # {}
        THEN off_topic_patterns[CHOOSE i \in hits : \A j \in hits : i <= j].response
        ELSE IF /\ Len(Strip(message)) <= 3
                /\ \E i \in 1..Len(ShortTokens) : ShortTokens[i] = message_lower
             THEN "Vamos continuar com o atendimento."
             ELSE None

(***************************************************************************)
(* _is_step_response: the step classifier.                                 *)
(***************************************************************************)
NameFillers == <<<<"o","l","a'">>, <<"o","i">>, <<"h","e","l","l","o">>, <<"c","o","m","o">>, <<"a","j","u","d","a">>, <<"p","r","e","c","i","s","o">>, <<"q","u","e","r","o">>>>

legal_areas == <<<<"p","e","n","a","l">>, <<"c","i","v","i","l">>, <<"t","r","a","b","a","l","h","i","s","t","a">>, <<"f","a","m","i'","l","i","a">>, <<"f","a","m","i","l","i","a">>, <<"e","m","p","r","e","s","a","r","i","a","l">>, <<"c","r","i","m","i","n","a","l">>, <<"t","r","a","b","a","l","h","o">>, <<"d","i","v","o'","r","c","i","o">>, <<"d","i","v","o","r","c","i","o">>, <<"c","o","m","e","r","c","i","a","l">>, <<"c","o","n","t","r","a","t","o">>>>

SituationFillers == <<<<"o","l","a'">>, <<"o","i">>, <<"c","o","m","o">>, <<"v","o","c","e^">>, <<"q","u","a","l">>, <<"q","u","a","n","d","o">>, <<"a","j","u","d","a">>>>

_is_step_response(raw, step_id) ==
    LET message == Lower(Strip(raw))
    IN  IF Len(message) < 1 THEN FALSE
        ELSE CASE step_id = 1 ->
                    Len(message) >= 2 /\ ~AnyIn(message, NameFillers)
               [] step_id = 2 ->
                    Len(message) >= 3 /\ AnyIn(message, legal_areas)
               [] step_id = 3 ->
                    Len(message) >= 5 /\ ~AnyIn(message, SituationFillers)
               [] step_id = 4 ->
                    LET digits == OnlyDigits(message)
                    IN  Len(digits) >= 10 /\ Len(digits) <= 13
               [] OTHER -> FALSE

(***************************************************************************)
(* _validate_and_normalize_answer: the normalizer.  The result is          *)
(* [ok |-> TRUE, value |-> the normalized answer] or, where the code       *)
(* raises ValueError, [ok |-> FALSE, value |-> <<>>].  (Family law is      *)
(* written without its accent in the values of area_map.)                  *)
(***************************************************************************)
area_map == <<
    [key |-> <<"c","r","i","m","i","n","a","l">>, value |-> <<"P","e","n","a","l">>],
    [key |-> <<"p","e","n","a","l">>, value |-> <<"P","e","n","a","l">>],
    [key |-> <<"t","r","a","b","a","l","h","o">>, value |-> <<"T","r","a","b","a","l","h","i","s","t","a">>],
    [key |-> <<"t","r","a","b","a","l","h","i","s","t","a">>, value |-> <<"T","r","a","b","a","l","h","i","s","t","a">>],
    [key |-> <<"f","a","m","i'","l","i","a">>, value |-> <<"F","a","m","i","l","i","a">>],
    [key |-> <<"f","a","m","i","l","i","a">>, value |-> <<"F","a","m","i","l","i","a">>],
    [key |-> <<"d","i","v","o'","r","c","i","o">>, value |-> <<"F","a","m","i","l","i","a">>],
    [key |-> <<"d","i","v","o","r","c","i","o">>, value |-> <<"F","a","m","i","l","i","a">>],
    [key |-> <<"c","i","v","i","l">>, value |-> <<"C","i","v","i","l">>],
    [key |-> <<"e","m","p","r","e","s","a","r","i","a","l">>, value |-> <<"E","m","p","r","e","s","a","r","i","a","l">>],
    [key |-> <<"c","o","m","e","r","c","i","a","l">>, value |-> <<"E","m","p","r","e","s","a","r","i","a","l">>]
>>

Valid(v) == [ok |-> TRUE, value |-> v]
ValueError(text) == [ok |-> FALSE, value |-> <<>>]

_validate_and_normalize_answer(raw, step_id) ==
    LET answer == Strip(raw)
    IN  CASE step_id = 1 ->
                IF Len(answer) < 2 THEN ValueError("Nome muito curto")
                ELSE LET words == Split(answer)
                     IN  Valid(JoinWords([i \in 1..Len(words) |-> Capitalize(words[i])]))
          [] step_id = 2 ->
                IF Len(answer) < 3 THEN ValueError("Area nao especificada")
                ELSE LET answer_lower == Lower(answer)
                         hits == {i \in 1..Len(area_map) : Contains(answer_lower, area_map[i].key)}
                     IN  IF hits # {}
                         THEN Valid(area_map[CHOOSE i \in hits : \A j \in hits : i <= j].value)
                         ELSE ValueError("Area juridica nao reconhecida")
          [] step_id = 3 ->
                IF Len(answer) < 5 THEN ValueError("Descricao muito curta")
                ELSE Valid(answer)
          [] step_id = 4 ->
                LET digits == OnlyDigits(answer)
                IN  IF Len(digits) < 10 \/ Len(digits) > 13
                    THEN ValueError("Numero de telefone invalido")
                    ELSE Valid(digits)
          [] OTHER -> Valid(answer)

(***************************************************************************)
(* The text functions tabulated over the messages of the model: the        *)
(* handlers below name a message by its text and read these tables.        *)
(***************************************************************************)
StepIds == 1..5

IsPhoneNumber ==
    [m \in Messages \cup PhoneInputs |-> _is_phone_number(MessageText(m))]

OffTopicResponse ==
    [m \in Messages |-> [k \in StepIds |-> _get_off_topic_response(MessageText(m), k)]]

IsStepResponse ==
    [m \in Messages |-> [k \in StepIds |-> _is_step_response(MessageText(m), k)]]

Normalized ==
    [m \in Messages |-> [k \in StepIds |-> _validate_and_normalize_answer(MessageText(m), k)]]

PhoneClean == [m \in Messages \cup PhoneInputs |-> OnlyDigits(MessageText(m))]

(***************************************************************************)
(* Flow definitions.  A step is a dict; `keys` names the optional keys it  *)
(* carries ("field", "error_message"), the others hold "".                 *)
(***************************************************************************)
Step(id, question, field, error_message) ==
    [id |-> id, question |-> question,
     keys |-> {"field", "error_message"},
     field |-> field, error_message |-> error_message]

BareStep(id, question) ==
    [id |-> id, question |-> question, keys |-> {},
     field |-> "", error_message |-> ""]

\* the flow get_conversation_flow creates when the flow document is missing
DefaultFlow ==
    [steps |-> <<
        Step(1, "Ola! Para comecar, qual e o seu nome completo?", "step_1",
             "Por favor, informe seu nome completo."),
        Step(2, "Em qual area do direito voce precisa de ajuda? (Penal, Civil, Trabalhista, Familia, Empresarial)", "step_2",
             "Por favor, escolha uma das areas: Penal, Civil, Trabalhista, Familia ou Empresarial."),
        Step(3, "Por favor, descreva brevemente sua situacao ou problema juridico.", "step_3",
             "Por favor, descreva sua situacao com mais detalhes."),
        Step(4, "Gostaria de agendar uma consulta com nosso advogado especializado? (Sim ou Nao)", "step_4",
             "Por favor, responda Sim ou Nao.") >>,
     completion_message |-> "Perfeito! Suas informacoes foram registradas com sucesso. Nossa equipe especializada analisara seu caso e entrara em contato em breve para agendar sua consulta."]

\* the flow _get_conversation_flow answers with when the fetch raises
MinimalFlow ==
    [steps |-> <<
        BareStep(1, "Qual e o seu nome completo?"),
        BareStep(2, "Em qual area do direito voce precisa de ajuda?"),
        BareStep(3, "Descreva brevemente sua situacao."),
        BareStep(4, "Gostaria de agendar uma consulta?") >>,
     completion_message |-> "Obrigado! Suas informacoes foram registradas."]

\* a flow document an administrator stored: two steps, own field names, no
\* error texts
StoredFlow ==
    [steps |-> <<
        [id |-> 1, question |-> "Como voce se chama?", keys |-> {"field"},
         field |-> "nome", error_message |-> ""],
        [id |-> 2, question |-> "Qual e a area do seu caso?", keys |-> {"field"},
         field |-> "area", error_message |-> ""] >>,
     completion_message |-> "Obrigado, {nome}!"]

\* a flow document with a step after the four the classifier knows
FiveStepFlow ==
    [steps |-> DefaultFlow.steps \o
        <<Step(5, "Como prefere ser contactado?", "step_5",
               "Por favor, informe como prefere ser contactado.")>>,
     completion_message |-> DefaultFlow.completion_message]

\* the contents the flow document can have when the service starts
FlowDocs == {<<>>, <<StoredFlow>>}

\* next((s for s in steps if s["id"] == step_id), None), as <<>> or <<s>>
FindStep(steps, step_id) ==
    LET hits == {i \in 1..Len(steps) : steps[i].id = step_id}
    IN  IF hits = {} THEN <<>>
        ELSE <<steps[CHOOSE i \in hits : \A j \in hits : i <= j]>>

\* step.get(key, default) for the optional keys of a step
StepGet(step, key, default) ==
    IF key \in step.keys
    THEN (IF key = "field" THEN step.field ELSE step.error_message)
    ELSE default

(***************************************************************************)
(* Session documents.  `has` is the set of keys the dict carries; a key    *)
(* that is not in `has` holds the filler of EmptyDoc.  The timestamps      *)
(* created_at and last_updated are not modelled.                           *)
(***************************************************************************)
EmptyDoc ==
    [has |-> {}, session_id |-> "", platform |-> "", current_step |-> 0,
     responses |-> {}, flow_completed |-> FALSE, phone_collected |-> FALSE,
     message_count |-> 0, phone_number |-> "", phone_formatted |-> ""]

\* dict.get(key, default)
Get(doc, key, default) == IF key \in doc.has THEN doc[key] ELSE default

\* doc[key] = value
Put(doc, key, value) == [doc EXCEPT ![key] = value, !.has = @ \cup {key}]

\* responses.get(field, default); responses is a set of [field, value]
RespGet(responses, field, default) ==
    IF \E r \in responses : r.field = field
    THEN (CHOOSE r \in responses : r.field = field).value
    ELSE default

\* DocumentReference.set(data, merge=True): the keys of data replace those
\* of the stored document, the other stored keys stay.  A nested map is
\* merged entry by entry, except that an empty map replaces the stored one.
MergeDoc(old, data) ==
    [k \in DOMAIN EmptyDoc |->
        IF k = "has" THEN old.has \cup data.has
        ELSE IF k \notin data.has THEN old[k]
        ELSE IF k = "responses" /\ data.responses # {}
             THEN {r \in old.responses :
                      \A d \in data.responses : d.field # r.field}
                  \cup data.responses
             ELSE data[k]]

\* the session _get_or_create_session builds when none is loaded
NewSession(session_id, platform) ==
    [has |-> {"session_id", "platform", "current_step", "responses",
              "flow_completed", "phone_collected", "message_count"},
     session_id |-> session_id, platform |-> platform, current_step |-> 1,
     responses |-> {}, flow_completed |-> FALSE, phone_collected |-> FALSE,
     message_count |-> 0, phone_number |-> "", phone_formatted |-> ""]

(***************************************************************************)
(* The flow cache of the orchestrator and the flow document it is filled   *)
(* from.  A flow state fs is [flow_doc, flow_cache, age_ix]: the flow      *)
(* document (<<>> when missing), the cached flow (<<>> for None;           *)
(* cache_timestamp is set exactly when flow_cache is) and the time since   *)
(* cache_timestamp, as an index into AgePoints.                            *)
(***************************************************************************)
\* seconds elapsed since cache_timestamp that the clock of the model visits
AgePoints == <<0, 300, 301, 86400>>

\* firebase_service.get_conversation_flow: raises when the store fails,
\* creates the default flow when the document is missing
get_conversation_flow(flow_doc, fetch_ok) ==
    IF ~fetch_ok THEN [raised |-> TRUE, flow |-> MinimalFlow, flow_doc |-> flow_doc]
    ELSE IF flow_doc # <<>>
         THEN [raised |-> FALSE, flow |-> flow_doc[1], flow_doc |-> flow_doc]
         ELSE [raised |-> FALSE, flow |-> DefaultFlow, flow_doc |-> <<DefaultFlow>>]

\* the refetch condition of line 101-103; timedelta.seconds is the seconds
\* part of the difference, without its days
NeedsFetch(fs) ==
    \/ fs.flow_cache = <<>>
    \/ (AgePoints[fs.age_ix] % 86400) > 300

\* CleanOrchestrator._get_conversation_flow; `fetched` tells whether the
\* flow source was called
_get_conversation_flow(fs, fetch_ok) ==
    IF NeedsFetch(fs)
    THEN LET got == get_conversation_flow(fs.flow_doc, fetch_ok)
         IN  IF got.raised
             THEN [flow |-> MinimalFlow, fs |-> fs, fetched |-> TRUE]
             ELSE [flow |-> got.flow,
                   fs |-> [flow_doc |-> got.flow_doc,
                           flow_cache |-> <<got.flow>>, age_ix |-> 1],
                   fetched |-> TRUE]
    ELSE [flow |-> fs.flow_cache[1], fs |-> fs, fetched |-> FALSE]

FlowCalls(got) == IF got.fetched THEN <<"get_conversation_flow">> ELSE <<>>

(***************************************************************************)
(* _handle_firebase_step.  The outcome of a handler is a record            *)
(*   response      the returned text, as the tuple of its pieces           *)
(*   session_data  the session dict as the handler leaves it               *)
(*   saves         the dicts handed to save_user_session, in order         *)
(*   fs            the flow state afterwards                               *)
(*   calls         the collaborator calls made, in order                   *)
(* and what else the handler returns.                                      *)
(***************************************************************************)
\* The evaluation of line 337,
\*     next((s for s in steps if s["id"] == next_step), None).
\* The name next_step is bound nowhere, neither in the function nor in the
\* module; steps holds the current step at least, so the generator reads
\* next_step on its first element and the expression raises NameError.
NextStepLookupSkipping(steps, current_step) ==
    [raised |-> FALSE, next_step |-> current_step + 2,
     next_step_data |-> <<steps[1]>>]

NextStepLookup(steps, current_step) ==
    [raised |-> TRUE, next_step |-> 0, next_step_data |-> <<>>]

\* current_step_data.get("error_message", current_step_data["question"]),
\* the reply to an answer the normalizer rejects (line 325)
ErrorPromptQuestionOnly(current_step_data) == current_step_data.question

ErrorPrompt(current_step_data) ==
    StepGet(current_step_data, "error_message", current_step_data.question)

TryWithoutExcept(outcome, handler) == outcome

\* try: ... except Exception: ... -- the outcome of the body, or what the
\* handler returns when the body raised
TryExcept(outcome, handler) == IF outcome.raised THEN handler ELSE outcome

\* an exception leaves _handle_firebase_step
FirebaseStepRaised(session_data, fs, calls) ==
    [response |-> <<>>, step_advanced |-> FALSE, returned_none |-> FALSE,
     raised |-> TRUE, session_data |-> session_data, saves |-> <<>>,
     fs |-> fs, calls |-> calls]

\* the handler of `except Exception` (lines 365-374)
FirebaseStepExcept(session_data, fs, fetch_ok, calls) ==
    LET got == _get_conversation_flow(fs, fetch_ok)
        current_step == Get(session_data, "current_step", 1)
        current_step_data == FindStep(got.flow.steps, current_step)
    IN  [response |-> IF current_step_data # <<>>
                      THEN <<current_step_data[1].question>>
                      ELSE <<"Qual e o seu nome completo?">>,
         step_advanced |-> FALSE, returned_none |-> FALSE, raised |-> FALSE,
         session_data |-> session_data, saves |-> <<>>,
         fs |-> got.fs, calls |-> calls \o FlowCalls(got)]

_handle_firebase_step(message, session_data, fs, fetch_ok, refetch_ok) ==
    IF "session_id" \notin session_data.has
    THEN \* session_data["session_id"] raises KeyError (line 306); the
         \* handler makes the first call of the flow source
         TryExcept(FirebaseStepRaised(session_data, fs, <<>>),
                            FirebaseStepExcept(session_data, fs, fetch_ok, <<>>))
    ELSE
    LET current_step == Get(session_data, "current_step", 1)
        got == _get_conversation_flow(fs, fetch_ok)
        steps == got.flow.steps
        current_step_data == FindStep(steps, current_step)
        calls == FlowCalls(got)
    IN  IF current_step_data = <<>>
        THEN IF steps = <<>>
             THEN \* steps[0] raises IndexError (line 318)
                  TryExcept(FirebaseStepRaised(session_data, got.fs, calls),
                            FirebaseStepExcept(session_data, got.fs, refetch_ok, calls))
             ELSE [response |-> <<steps[1].question>>,
                   step_advanced |-> FALSE, returned_none |-> FALSE, raised |-> FALSE,
                   session_data |-> session_data, saves |-> <<>>,
                   fs |-> got.fs, calls |-> calls]
        ELSE
        LET normalized == Normalized[message][current_step]
        IN  IF ~normalized.ok
            THEN [response |-> <<ErrorPrompt(current_step_data[1])>>,
                  step_advanced |-> FALSE, returned_none |-> FALSE, raised |-> FALSE,
                  session_data |-> session_data, saves |-> <<>>,
                  fs |-> got.fs, calls |-> calls]
            ELSE
            \* lines 328-333 compute field_name and refresh last_updated; the
            \* normalized answer is written to no key of the session
            LET look == NextStepLookup(steps, current_step)
            IN  IF look.raised
                THEN TryExcept(FirebaseStepRaised(session_data, got.fs, calls),
                            FirebaseStepExcept(session_data, got.fs, refetch_ok, calls))
                ELSE IF look.next_step_data # <<>>
                THEN LET advanced == Put(session_data, "current_step", look.next_step)
                     IN  [response |-> <<look.next_step_data[1].question>>,
                          step_advanced |-> TRUE, returned_none |-> FALSE, raised |-> FALSE,
                          session_data |-> advanced, saves |-> <<advanced>>,
                          fs |-> got.fs,
                          calls |-> calls \o <<"save_user_session">>]
                ELSE \* the function body ends: it returns None
                     [response |-> <<>>,
                      step_advanced |-> FALSE, returned_none |-> TRUE, raised |-> FALSE,
                      session_data |-> session_data, saves |-> <<>>,
                      fs |-> got.fs, calls |-> calls]

(***************************************************************************)
(* _handle_gemini_response: the canned off-topic reply, else the prompt of *)
(* the current step.                                                       *)
(***************************************************************************)
_handle_gemini_response(message, session_data, fs, fetch_ok) ==
    LET current_step == Get(session_data, "current_step", 1)
        off_topic_response == OffTopicResponse[message][current_step]
    IN  IF off_topic_response # None
        THEN [response |-> <<off_topic_response>>, fs |-> fs, calls |-> <<>>]
        ELSE LET got == _get_conversation_flow(fs, fetch_ok)
                 current_step_data == FindStep(got.flow.steps, current_step)
             IN  [response |-> IF current_step_data # <<>>
                               THEN <<current_step_data[1].question>>
                               ELSE <<"Qual e o seu nome completo?">>,
                  fs |-> got.fs, calls |-> FlowCalls(got)]

(***************************************************************************)
(* _handle_phone_collection                                                *)
(***************************************************************************)
InvalidNumberText == "Numero invalido. Por favor, digite no formato com DDD (exemplo: 11999999999):"
DeliveredText == "Mensagem enviada para seu WhatsApp!"
NotDeliveredText == "Houve um problema ao enviar a mensagem do WhatsApp, mas suas informacoes foram salvas."

InvalidLengthTooLongOnly(phone_clean) == Len(phone_clean) > 13

\* line 447
InvalidLength(phone_clean) == Len(phone_clean) < 10 \/ Len(phone_clean) > 13

FormatPhonePrefixOnly(phone_clean) == <<"5","5">> \o phone_clean

\* lines 450-458
FormatPhone(phone_clean) ==
    IF Len(phone_clean) = 10
    THEN <<"5","5">> \o SubSeq(phone_clean, 1, 2) \o <<"9">>
         \o SubSeq(phone_clean, 3, Len(phone_clean))
    ELSE IF Len(phone_clean) = 11 THEN <<"5","5">> \o phone_clean
    ELSE IF StartsWith(phone_clean, <<"5","5">>) THEN phone_clean
    ELSE <<"5","5">> \o phone_clean

\* s[:n]
Take(s, n) == SubSeq(s, 1, IF Len(s) < n THEN Len(s) ELSE n)

\* lines 472-480: the answers of the lead record
RECURSIVE LeadAnswers(_, _)
LeadAnswers(responses, i) ==
    IF i > 4 THEN <<>>
    ELSE LET answer == RespGet(responses, "step_" \o ToString(i), <<>>)
         IN  (IF answer # <<>> THEN <<[id |-> i, answer |-> Str(answer)]>> ELSE <<>>)
             \o LeadAnswers(responses, i + 1)

ProcessingErrorText == "Ocorreu um erro ao processar seu numero. Por favor, tente novamente."

\* firebase_service.save_lead_data: a failure is logged and raised again
save_lead_data(lead_ok) == [raised |-> ~lead_ok]

LeadErrorEscapesHandler(saved) == saved.raised

\* lines 482-486: an error raised by save_lead_data is caught and logged;
\* it never reaches the handler of line 524
LeadErrorEscapes(saved) == FALSE

\* baileys_service.send_whatsapp_message (the notification dispatch
\* service): it reports a failed delivery as an error, which line 512
\* catches
send_whatsapp_message(send_ok) == [raised |-> ~send_ok]

ConfirmationAlwaysDelivered(phone_clean, whatsapp_success) ==
    <<"Numero confirmado: ", Str(phone_clean),
      "Perfeito! Suas informacoes foram registradas com sucesso. Nossa equipe entrara em contato em breve.",
      DeliveredText>>

\* the confirmation of lines 516-520
Confirmation(phone_clean, whatsapp_success) ==
    <<"Numero confirmado: ", Str(phone_clean),
      "Perfeito! Suas informacoes foram registradas com sucesso. Nossa equipe entrara em contato em breve.",
      IF whatsapp_success THEN DeliveredText ELSE NotDeliveredText>>

PhoneCollectionCallsLeadFirst ==
    <<"save_lead_data", "save_user_session", "send_whatsapp_message">>

\* the collaborator calls of a capture, in the order of lines 469, 483
\* and 509
PhoneCollectionCalls ==
    <<"save_user_session", "save_lead_data", "send_whatsapp_message">>

_handle_phone_collection(phone_message, session_id, session_data, lead_ok, send_ok) ==
    LET phone_clean == PhoneClean[phone_message]
    IN  IF InvalidLength(phone_clean)
        THEN [response |-> <<InvalidNumberText>>, captured |-> FALSE,
              session_data |-> session_data, saves |-> <<>>,
              lead |-> <<>>, notification |-> <<>>, calls |-> <<>>]
        ELSE
        LET phone_formatted == FormatPhone(phone_clean)
            updated == Put(Put(Put(session_data,
                          "phone_number", Str(phone_clean)),
                          "phone_formatted", Str(phone_formatted)),
                          "phone_collected", TRUE)
            responses == Get(updated, "responses", {})
            answers == LeadAnswers(responses, 1)
                       \o <<[id |-> 5, answer |-> Str(phone_clean)]>>
            user_name == RespGet(responses, "step_1", <<"C","l","i","e","n","t","e">>)
            area == RespGet(responses, "step_2", <<"n","a~","o"," ","i","n","f","o","r","m","a","d","a">>)
            situation == Take(RespGet(responses, "step_3",
                              <<"n","a~","o"," ","d","e","t","a","l","h","a","d","a">>), 150)
            whatsapp_success == ~send_whatsapp_message(send_ok).raised
        IN  IF LeadErrorEscapes(save_lead_data(lead_ok))
            THEN [response |-> <<ProcessingErrorText>>, captured |-> TRUE,
                  session_data |-> updated, saves |-> <<updated>>,
                  lead |-> <<[answers |-> answers]>>, notification |-> <<>>,
                  calls |-> SubSeq(PhoneCollectionCalls, 1, 2)]
            ELSE
            [response |-> Confirmation(phone_clean, whatsapp_success),
             captured |-> TRUE,
             session_data |-> updated, saves |-> <<updated>>,
             lead |-> <<[answers |-> answers]>>,
             notification |-> <<[to |-> Str(phone_formatted) \o "@s.whatsapp.net",
                                 user_name |-> Str(user_name), area |-> Str(area),
                                 situation |-> Str(situation)]>>,
             calls |-> PhoneCollectionCalls]

(***************************************************************************)
(* process_message.  `stored` is the document of the session in the store  *)
(* (EmptyDoc when there is none); `env` gives what the collaborators do    *)
(* during the call: load_ok (get_user_session does not fail), fetch_ok and *)
(* refetch_ok (the first and the second call of the flow source), lead_ok  *)
(* (save_lead_data), send_ok (send_whatsapp_message).  The routes of       *)
(* conversation.py pass no phone_number argument.                          *)
(***************************************************************************)
\* a result dict: `keys` names the keys it carries
EmptyResult ==
    [keys |-> {}, response_type |-> "", status |-> "", response |-> <<>>,
     current_step |-> 0, step_advanced |-> FALSE, flow_completed |-> FALSE,
     phone_collected |-> FALSE, off_topic_handled |-> FALSE,
     message_count |-> 0, exists |-> FALSE, platform |-> "",
     responses |-> {}]

\* get_user_session: None (EmptyDoc) when the document is missing and when
\* the store raises
get_user_session(stored, load_ok) == IF load_ok THEN stored ELSE EmptyDoc

_get_or_create_session(session_id, platform, stored, load_ok) ==
    LET session_data == get_user_session(stored, load_ok)
    IN  IF session_data.has = {} THEN NewSession(session_id, platform)
        ELSE session_data

\* an exception leaves process_message: the caller is handed no result
ProcessMessageRaised(h) ==
    [branch |-> "raised", raised |-> TRUE, result |-> EmptyResult,
     captured |-> FALSE, saves |-> h.saves, lead |-> <<>>,
     notification |-> <<>>, fs |-> h.fs,
     calls |-> <<"get_user_session">> \o h.calls]

\* the handler of lines 637-645
OrchestrationError(h) ==
    [branch |-> "error", raised |-> FALSE,
     result |-> [EmptyResult EXCEPT
         !.keys = {"response_type", "response", "error"},
         !.response_type = "error",
         !.response = <<"Qual e o seu nome completo?">>],
     captured |-> FALSE, saves |-> h.saves, lead |-> <<>>,
     notification |-> <<>>, fs |-> h.fs,
     calls |-> <<"get_user_session">> \o h.calls]

process_message(message, session_id, platform, stored, fs, env) ==
    LET loaded == _get_or_create_session(session_id, platform, stored, env.load_ok)
        session_data == Put(loaded, "message_count",
                            Get(loaded, "message_count", 0) + 1)
        current_step == Get(session_data, "current_step", 1)
    IN  IF /\ Get(session_data, "flow_completed", FALSE)
           /\ ~Get(session_data, "phone_collected", FALSE)
           /\ IsPhoneNumber[message]
        THEN LET h == _handle_phone_collection(message, session_id, session_data,
                                               env.lead_ok, env.send_ok)
             IN  [branch |-> "phone",
                  result |-> [EmptyResult EXCEPT
                      !.keys = {"response_type", "response", "phone_collected",
                                "message_count"},
                      !.response_type = "phone_collected",
                      !.response = h.response,
                      !.phone_collected = TRUE,
                      !.message_count = session_data.message_count],
                  captured |-> h.captured,
                  saves |-> h.saves, lead |-> h.lead,
                  notification |-> h.notification, fs |-> fs,
                  calls |-> <<"get_user_session">> \o h.calls]
        ELSE IF platform = "whatsapp"
        THEN LET h == _handle_gemini_response(message, session_data, fs, env.fetch_ok)
             IN  [branch |-> "whatsapp",
                  result |-> [EmptyResult EXCEPT
                      !.keys = {"response_type", "response", "message_count"},
                      !.response_type = "gemini_whatsapp",
                      !.response = h.response,
                      !.message_count = session_data.message_count],
                  captured |-> FALSE,
                  saves |-> <<session_data>>, lead |-> <<>>,
                  notification |-> <<>>, fs |-> h.fs,
                  calls |-> <<"get_user_session">> \o h.calls
                            \o <<"save_user_session">>]
        ELSE IF /\ ~Get(session_data, "flow_completed", FALSE)
                /\ IsStepResponse[message][current_step]
        THEN LET h == _handle_firebase_step(message, session_data, fs,
                                            env.fetch_ok, env.refetch_ok)
             IN  IF h.raised \/ h.returned_none
                 THEN \* an exception of the handler, or the TypeError of
                      \* unpacking None (line 593): the handler of line 637
                      TryExcept(ProcessMessageRaised(h), OrchestrationError(h))
                 ELSE [branch |-> "step",
                       result |-> [EmptyResult EXCEPT
                           !.keys = {"response_type", "response", "current_step",
                                     "step_advanced", "flow_completed",
                                     "message_count"},
                           !.response_type = "firebase_step",
                           !.response = h.response,
                           !.current_step = Get(h.session_data, "current_step", current_step),
                           !.step_advanced = h.step_advanced,
                           !.flow_completed = Get(h.session_data, "flow_completed", FALSE),
                           !.message_count = h.session_data.message_count],
                       captured |-> FALSE,
                       saves |-> h.saves, lead |-> <<>>,
                       notification |-> <<>>, fs |-> h.fs,
                       calls |-> <<"get_user_session">> \o h.calls]
        ELSE LET got == _get_conversation_flow(fs, env.fetch_ok)
                 current_step_data == FindStep(got.flow.steps, current_step)
                 off_topic_response == OffTopicResponse[message][current_step]
                 combined_response ==
                     IF off_topic_response # None /\ current_step_data # <<>>
                     THEN <<off_topic_response, current_step_data[1].question>>
                     ELSE IF current_step_data # <<>>
                          THEN <<current_step_data[1].question>>
                          ELSE <<"Qual e o seu nome completo?">>
             IN  [branch |-> "redirect",
                  result |-> [EmptyResult EXCEPT
                      !.keys = {"response_type", "response", "current_step",
                                "flow_completed", "off_topic_handled",
                                "message_count"},
                      !.response_type = "firebase_redirect",
                      !.response = combined_response,
                      !.current_step = Get(session_data, "current_step", current_step),
                      !.flow_completed = Get(session_data, "flow_completed", FALSE),
                      !.off_topic_handled = (off_topic_response # None),
                      !.message_count = session_data.message_count],
                  captured |-> FALSE,
                  saves |-> <<session_data>>, lead |-> <<>>,
                  notification |-> <<>>, fs |-> got.fs,
                  calls |-> <<"get_user_session">> \o FlowCalls(got)
                            \o <<"save_user_session">>]

(***************************************************************************)
(* handle_phone_number_submission (submit_phone)                           *)
(***************************************************************************)
handle_phone_number_submission(phone_number, session_id, stored, env) ==
    LET session_data == get_user_session(stored, env.load_ok)
        h == _handle_phone_collection(phone_number, session_id, session_data,
                                      env.lead_ok, env.send_ok)
    IN  \* the returned dict carries the text under the key "message"
        [branch |-> "submit_phone",
         result |-> [EmptyResult EXCEPT
             !.keys = {"status", "message", "phone_collected"},
             !.status = "success",
             !.response = h.response,
             !.phone_collected = TRUE],
         captured |-> h.captured,
         saves |-> h.saves, lead |-> h.lead,
         notification |-> h.notification,
         calls |-> <<"get_user_session">> \o h.calls]

(***************************************************************************)
(* State.                                                                  *)
(***************************************************************************)
(***************************************************************************)
(* get_session_context (lines 669-690)                                     *)
(***************************************************************************)
\* the dict of lines 676-687
SessionContext(session_id, session_data) ==
    [EmptyResult EXCEPT
        !.keys = {"exists", "session_id", "platform", "current_step",
                  "flow_completed", "phone_collected", "responses",
                  "message_count"},
        !.exists = TRUE,
        !.platform = Get(session_data, "platform", "unknown"),
        !.current_step = Get(session_data, "current_step", 1),
        !.flow_completed = Get(session_data, "flow_completed", FALSE),
        !.phone_collected = Get(session_data, "phone_collected", FALSE),
        !.responses = Get(session_data, "responses", {}),
        !.message_count = Get(session_data, "message_count", 0)]

get_session_context(session_id, stored, load_ok) ==
    LET session_data == get_user_session(stored, load_ok)
    IN  [branch |-> "context",
         result |-> IF session_data.has = {}
                    THEN [EmptyResult EXCEPT !.keys = {"exists"}]
                    ELSE SessionContext(session_id, session_data),
         captured |-> FALSE, saves |-> <<>>, lead |-> <<>>,
         notification |-> <<>>, calls |-> <<"get_user_session">>]

VARIABLES
    store,        \* user_sessions: session id -> document (EmptyDoc: none)
    flow_doc,     \* conversation_flows/law_firm_intake: <<>> or <<flow>>
    flow_cache,   \* CleanOrchestrator.flow_cache: <<>> (None) or <<flow>>
    age_ix,       \* time since cache_timestamp: AgePoints[age_ix] seconds
    handoffs,     \* history: session id -> handoffs performed for it
    received,     \* history: session id -> process_message calls made for it
    calls_made,   \* history: number of orchestrator calls made
    script,       \* history: session id -> progress of the scripted answers
    last,         \* history: the last orchestrator call and its result
    model,        \* AIOrchestrator.model: TRUE when it was initialised
    conversations, \* AIOrchestrator.conversations: session id -> entry
    ai_last,      \* history: the last AIOrchestrator call and its result
    issued,       \* history: the session ids start_conversation handed out
    start_last,   \* history: the last start_conversation call and its result
    inflight      \* the process_message calls that overlap in time

\* the state of the AIOrchestrator (ai_chain.py); CleanOrchestrator and the
\* routes of conversation.py make no call to it
ai_vars == <<model, conversations, ai_last>>

\* what the start route leaves behind; process_message takes any session id
start_vars == <<issued, start_last>>

\* the calls under way at the same time (one coroutine or worker each)
race_vars == <<inflight>>

vars == <<store, flow_doc, flow_cache, age_ix, handoffs, received,
          calls_made, script, last, model, conversations, ai_last,
          issued, start_last, inflight>>

Sessions == {"s1"}
Platforms == {"web", "whatsapp"}

FS == [flow_doc |-> flow_doc, flow_cache |-> flow_cache, age_ix |-> age_ix]

NoCall ==
    [op |-> "none", session_id |-> "", message |-> "", platform |-> "",
     env |-> [load_ok |-> TRUE, fetch_ok |-> TRUE, refetch_ok |-> TRUE,
              lead_ok |-> TRUE, send_ok |-> TRUE],
     save_ok |-> TRUE, before |-> EmptyDoc, branch |-> "",
     result |-> EmptyResult, captured |-> FALSE, saves |-> <<>>,
     lead |-> <<>>, notification |-> <<>>, calls |-> <<>>]

\* the number of times `name` occurs in a sequence of calls
Count(calls, name) == Cardinality({i \in 1..Len(calls) : calls[i] = name})

\* The outcome of a collaborator is drawn only for the calls that are made:
\* the flag of a call that does not happen is TRUE.
EnvUsed(env, save_ok, calls) ==
    /\ (Count(calls, "get_conversation_flow") < 1 => env.fetch_ok)
    /\ (Count(calls, "get_conversation_flow") < 2 => env.refetch_ok)
    /\ (Count(calls, "save_user_session") < 1 => save_ok)
    /\ (Count(calls, "save_lead_data") < 1 => env.lead_ok)
    /\ (Count(calls, "send_whatsapp_message") < 1 => env.send_ok)

AllOk == [load_ok |-> TRUE, fetch_ok |-> TRUE, refetch_ok |-> TRUE,
          lead_ok |-> TRUE, send_ok |-> TRUE]

\* The outcome of a collaborator call is drawn as a number: 1 when the call
\* succeeds, 2 when it fails.  Draws is the number of outcomes to draw for
\* the calls of `name`: one (success) when no such call is made.
Draws(calls, name) == IF Count(calls, name) < 1 THEN 1 ELSE 2

Env(load, fetch, refetch, lead, send) ==
    [load_ok |-> load = 1, fetch_ok |-> fetch = 1, refetch_ok |-> refetch = 1,
     lead_ok |-> lead = 1, send_ok |-> send = 1]

\* save_user_session for each dict of `saves`, in order; a failing save
\* returns False and writes nothing
RECURSIVE SaveAll(_, _, _)
SaveAll(doc, saves, save_ok) ==
    IF saves = <<>> \/ ~save_ok THEN doc
    ELSE SaveAll(MergeDoc(doc, saves[1]), Tail(saves), save_ok)

\* the flow the flow source serves
ServedFlow == IF flow_doc = <<>> THEN DefaultFlow ELSE flow_doc[1]

\* history: message number script+1 of a session is the scripted answer to
\* step script+1 when the classifier and the normalizer accept it for that
\* step, it arrives on the web platform and no collaborator fails
ScriptAfter(sid, m, platform, env, save_ok) ==
    LET n == script[sid] + 1
    IN  IF /\ script[sid] >= 0
           /\ n <= Len(ServedFlow.steps)
           /\ platform = "web"
           /\ env.load_ok /\ env.fetch_ok /\ env.refetch_ok /\ save_ok
           /\ IsStepResponse[m][ServedFlow.steps[n].id]
           /\ Normalized[m][ServedFlow.steps[n].id].ok
        THEN n
        ELSE -1

(***************************************************************************)
(* AIOrchestrator (ai_chain.py): the conversational fallback, with one      *)
(* conversation memory per session id.                                     *)
(***************************************************************************)
AISessions == {"s1", "default", "health_check"}

\* the session ids of the callers of generate_response; "health_check" is
\* the id get_service_status uses
ChatSessions == AISessions \ {"health_check"}
AIMessages == {"oi", "quanto custa?"}

\* the largest number of exchanges recorded for a session
MaxExchanges == 2

\* what chain.ainvoke does: it returns the reply of the model, runs into
\* the timeout of the model, or raises another error
InvokeOutcomes == {"ok", "timeout", "error"}
ModelReplies == {"Resposta do assistente."}

\* lines 185-192
_get_fallback_response ==
    "Obrigado pela sua mensagem! No momento estou com dificuldades tecnicas, mas nossa equipe analisara sua solicitacao e entrara em contato em breve. Para urgencias, entre em contato diretamente conosco."

\* no entry of self.conversations
NoConversation == [exists |-> FALSE, messages |-> <<>>, message_count |-> 0]

\* lines 83-97: the entry of the session, created with an empty memory
get_or_create_memory(convs, session_id) ==
    IF convs[session_id].exists THEN convs
    ELSE [convs EXCEPT ![session_id] =
            [exists |-> TRUE, messages |-> <<>>, message_count |-> 0]]

\* memory.save_context({"input": message}, {"output": response})
save_context(entry, message, response) ==
    [entry EXCEPT !.messages =
        @ \o <<[type |-> "human", content |-> message],
               [type |-> "ai", content |-> response]>>]

\* lines 99-103
clear_memory(convs, session_id) ==
    [convs EXCEPT ![session_id] = NoConversation]

\* lines 105-165
generate_response(message, session_id, convs, model_ready, invoke, reply) ==
    IF ~model_ready
    THEN [raised |-> FALSE, response |-> _get_fallback_response,
          conversations |-> convs]
    ELSE LET created == get_or_create_memory(convs, session_id)
         IN  TryExcept(
                IF invoke # "ok"
                THEN [raised |-> TRUE, response |-> "", conversations |-> created]
                ELSE [raised |-> FALSE, response |-> reply,
                      conversations |->
                          [created EXCEPT ![session_id] =
                              [save_context(@, message, reply)
                                  EXCEPT !.message_count = @ + 1]]],
                [raised |-> FALSE, response |-> _get_fallback_response,
                 conversations |-> created])

\* the replies the model can give to the test message of the health check
HealthReplies == ModelReplies \cup {"Ok."}

\* len(text) of the texts generate_response can return
TextLength(text) ==
    CASE text = _get_fallback_response -> 201
      [] text = "Resposta do assistente." -> 23
      [] text = "Ok." -> 3
      [] OTHER -> 0

\* lines 218-269.  gemini_configured is bool(os.getenv("GEMINI_API_KEY"));
\* generate_response raises nothing, so the handlers of lines 235 and 262
\* are not entered
get_service_status(convs, model_ready, gemini_configured, invoke, reply) ==
    LET model_initialized == model_ready
        test == generate_response("Teste de conexao", "health_check", convs,
                                  model_ready, invoke, reply)
        test_response == test.response
        model_working ==
            /\ model_initialized
            /\ test_response # "" /\ TextLength(test_response) > 10
    IN  [status |-> IF gemini_configured /\ model_initialized /\ model_working
                    THEN "active" ELSE "configuration_required",
         model_working |-> model_working,
         response |-> IF model_initialized THEN test_response ELSE "",
         conversations |-> IF model_initialized
                           THEN clear_memory(test.conversations, "health_check")
                           ELSE convs]

NoAICall ==
    [op |-> "none", session_id |-> "", message |-> "", model |-> FALSE,
     invoke |-> "ok", before |-> NoConversation, raised |-> FALSE,
     response |-> "", configured |-> FALSE, status |-> ""]

\* no call is made to the AIOrchestrator
AIUnused ==
    /\ model = FALSE
    /\ conversations = [s \in AISessions |-> NoConversation]
    /\ ai_last = NoAICall

\* start_conversation (conversation.py): no call made yet
NoStartCall ==
    [op |-> "none", fetch_ok |-> TRUE, before_doc |-> <<>>, before_issued |-> {},
     status_code |-> 0, detail |-> "", session_id |-> "", question |-> "",
     step_id |-> 0, is_final_step |-> FALSE]

\* no session was started
NoStart ==
    /\ issued = {}
    /\ start_last = NoStartCall

\* the calls that can overlap, and a call that has not arrived
Calls == {"a", "b"}

IdleCall ==
    [pc |-> "idle", session_id |-> "", message |-> "", platform |-> "",
     load_ok |-> TRUE, save_ok |-> TRUE, seen |-> EmptyDoc,
     other_pc |-> "idle", branch |-> "", saves |-> <<>>, lead |-> <<>>,
     notification |-> <<>>]

\* no two calls overlap: each call returns before the next one arrives
NoRace == inflight = [c \in Calls |-> IdleCall]

InitCommon ==
    /\ flow_doc \in FlowDocs
    /\ flow_cache = <<>>
    /\ age_ix = 1
    /\ handoffs = [s \in Sessions |-> 0]
    /\ received = [s \in Sessions |-> 0]
    /\ calls_made = 0
    /\ script = [s \in Sessions |-> 0]
    /\ last = NoCall

\* the service starts on an empty session store
Init ==
    /\ store = [s \in Sessions |-> EmptyDoc]
    /\ InitCommon
    /\ AIUnused
    /\ NoStart
    /\ NoRace

\* what a call leaves behind in the history variable `last`
CallRecord(op, sid, m, platform, env, save_ok, out) ==
    [op |-> op, session_id |-> sid, message |-> m, platform |-> platform,
     env |-> env, save_ok |-> save_ok, before |-> store[sid],
     branch |-> out.branch, result |-> out.result,
     captured |-> out.captured, saves |-> out.saves, lead |-> out.lead,
     notification |-> out.notification, calls |-> out.calls]

ProcessMessage ==
    /\ last.op = "none"
    /\ calls_made < MaxCalls
    /\ \E sid \in Sessions, m \in Messages, platform \in Platforms, load \in 1..2 :
        \E dry \in {process_message(m, sid, platform, store[sid], FS,
                                    Env(load, 1, 1, 1, 1))} :
        \E fetch \in 1..Draws(dry.calls, "get_conversation_flow"),
           refetch \in 1..Draws(dry.calls, "get_conversation_flow"),
           lead \in 1..Draws(dry.calls, "save_lead_data"),
           send \in 1..Draws(dry.calls, "save_lead_data") :
        \E env \in {Env(load, fetch, refetch, lead, send)} :
        \E out \in {process_message(m, sid, platform, store[sid], FS, env)} :
        \E save \in 1..Draws(out.calls, "save_user_session") :
            /\ EnvUsed(env, save = 1, out.calls)
            /\ store' = [store EXCEPT ![sid] = SaveAll(@, out.saves, save = 1)]
            /\ flow_doc' = out.fs.flow_doc
            /\ flow_cache' = out.fs.flow_cache
            /\ age_ix' = out.fs.age_ix
            /\ handoffs' = [handoffs EXCEPT ![sid] =
                              IF out.lead # <<>> THEN @ + 1 ELSE @]
            /\ last' = CallRecord("process_message", sid, m, platform, env,
                                  save = 1, out)
            /\ received' = [received EXCEPT ![sid] = @ + 1]
            /\ calls_made' = calls_made + 1
            /\ script' = [script EXCEPT ![sid] =
                            ScriptAfter(sid, m, platform, env, save = 1)]
            /\ UNCHANGED <<ai_vars, start_vars, race_vars>>

SubmitPhone ==
    /\ last.op = "none"
    /\ calls_made < MaxCalls
    /\ \E sid \in Sessions, m \in PhoneInputs, load \in 1..2 :
        \E dry \in {handle_phone_number_submission(m, sid, store[sid],
                                    Env(load, 1, 1, 1, 1))} :
        \E lead \in 1..Draws(dry.calls, "save_lead_data"),
           send \in 1..Draws(dry.calls, "save_lead_data") :
        \E env \in {Env(load, 1, 1, lead, send)} :
        \E out \in {handle_phone_number_submission(m, sid, store[sid], env)} :
        \E save \in 1..Draws(out.calls, "save_user_session") :
            /\ EnvUsed(env, save = 1, out.calls)
            /\ store' = [store EXCEPT ![sid] = SaveAll(@, out.saves, save = 1)]
            /\ handoffs' = [handoffs EXCEPT ![sid] =
                              IF out.lead # <<>> THEN @ + 1 ELSE @]
            /\ last' = CallRecord("submit_phone", sid, m, "", env, save = 1, out)
            /\ calls_made' = calls_made + 1
            /\ script' = [script EXCEPT ![sid] = -1]
            /\ UNCHANGED <<flow_doc, flow_cache, age_ix, received>>
            /\ UNCHANGED <<ai_vars, start_vars, race_vars>>

\* time passes before a further call: the cached flow grows older
Tick ==
    /\ last.op = "none"
    /\ calls_made < MaxCalls
    /\ flow_cache # <<>>
    /\ \E i \in (age_ix + 1)..Len(AgePoints) : age_ix' = i
    /\ UNCHANGED <<store, flow_doc, flow_cache, handoffs, received,
                   calls_made, script, last>>
    /\ UNCHANGED <<ai_vars, start_vars, race_vars>>

\* the route hands the result of the call to the client (conversation.py);
\* the orchestrator is idle again
Deliver ==
    /\ last.op # "none"
    /\ last' = NoCall
    /\ UNCHANGED <<store, flow_doc, flow_cache, age_ix, handoffs, received,
                   calls_made, script>>
    /\ UNCHANGED <<ai_vars, start_vars, race_vars>>

\* GET /conversation/status/{session_id}: get_session_context reads the
\* session; it writes nothing
GetSessionContext ==
    /\ last.op = "none"
    /\ \E sid \in Sessions, load \in 1..2 :
        LET env == Env(load, 1, 1, 1, 1)
            out == get_session_context(sid, store[sid], env.load_ok)
        IN  last' = CallRecord("get_session_context", sid, "", "", env, TRUE, out)
    /\ UNCHANGED <<store, flow_doc, flow_cache, age_ix, handoffs, received,
                   calls_made, script>>
    /\ UNCHANGED <<ai_vars, start_vars, race_vars>>

Next == ProcessMessage \/ SubmitPhone \/ GetSessionContext \/ Deliver \/ Tick

Spec == Init /\ [][Next]_vars

(***************************************************************************)
(* The session store is a durable document store: when the service starts  *)
(* it can hold the session of a conversation that is under way or over,    *)
(* as the data model describes it: step p reached with the p-1 answers     *)
(* before it recorded under the field names of the flow, or the flow       *)
(* completed with every answer recorded, with or without the handoff.      *)
(***************************************************************************)
\* the answers recorded for steps 1 to 5
StoredAnswers == <<
    <<"M","a","r","i","a"," ","S","i","l","v","a">>,
    <<"P","e","n","a","l">>,
    <<"F","u","i"," ","d","e","m","i","t","i","d","o">>,
    <<"1","1","9","8","7","6","5","4","3","2","1">>,
    <<"T","e","l","e","f","o","n","e">> >>

\* field_name of a step (line 329)
FieldName(step) == StepGet(step, "field", "step_" \o ToString(step.id))

AnswersUpTo(flow, k) ==
    {[field |-> FieldName(flow.steps[i]), value |-> StoredAnswers[i]] : i \in 1..k}

InProgress(sid, flow, p) ==
    [NewSession(sid, "web") EXCEPT
        !.current_step = p,
        !.responses = AnswersUpTo(flow, p - 1),
        !.message_count = p - 1]

Completed(sid, flow, phone) ==
    LET K == Len(flow.steps)
        done == [NewSession(sid, "web") EXCEPT
                    !.current_step = K,
                    !.responses = AnswersUpTo(flow, K),
                    !.flow_completed = TRUE,
                    !.message_count = K]
    IN  IF ~phone THEN done
        ELSE [done EXCEPT
                !.has = @ \cup {"phone_number", "phone_formatted"},
                !.phone_collected = TRUE,
                !.phone_number = "11987654321",
                !.phone_formatted = "5511987654321",
                !.message_count = K + 1]

StoredDocs(sid, flow_document) ==
    IF flow_document = <<>> THEN {EmptyDoc}
    ELSE LET flow == flow_document[1]
         IN  {EmptyDoc}
             \cup {InProgress(sid, flow, p) : p \in 2..Len(flow.steps)}
             \cup {Completed(sid, flow, phone) : phone \in BOOLEAN}

InitStored ==
    /\ flow_doc \in FlowDocs \cup {<<DefaultFlow>>, <<FiveStepFlow>>}
    /\ \E docs \in [Sessions -> UNION {StoredDocs(s, flow_doc) : s \in Sessions}] :
        /\ \A s \in Sessions : docs[s] \in StoredDocs(s, flow_doc)
        /\ store = docs
        /\ handoffs = [s \in Sessions |->
                          IF Get(docs[s], "phone_collected", FALSE) THEN 1 ELSE 0]
        /\ received = [s \in Sessions |-> Get(docs[s], "message_count", 0)]
        /\ script = [s \in Sessions |-> IF docs[s] = EmptyDoc THEN 0 ELSE -1]
    /\ flow_cache = <<>>
    /\ age_ix = 1
    /\ calls_made = 0
    /\ last = NoCall
    /\ AIUnused
    /\ NoStart
    /\ NoRace

SpecStored == InitStored /\ [][Next]_vars

\* the service reached through POST /conversation/respond and the status
\* route alone: every message of a session goes through process_message
NextMessages == ProcessMessage \/ GetSessionContext \/ Deliver \/ Tick

SpecMessages == InitStored /\ [][NextMessages]_vars

(***************************************************************************)
(* Calls that overlap.  Sessions are not locked: process_message reads     *)
(* the session (line 542), works on its own copy of the dict and writes    *)
(* it back at the save of its branch.  Every collaborator call is awaited, *)
(* so another call for the same session can run between the load of a call *)
(* and the rest of it.  LoadSession is a call up to the return of line     *)
(* 542; FinishCall is the rest of the call, on the dict it loaded; the     *)
(* save merges that dict into the document the store holds by then.        *)
(***************************************************************************)
SessionSeenAtReturn(c) == store[inflight[c].session_id]

\* the stored document a call works on: the one it read at line 542
SessionSeen(c) == inflight[c].seen

\* the messages of the overlapping calls: a phone number, an answer to a
\* step, a greeting
RaceMessages == {"11987654321", "Maria Silva", "oi"}

LoadSession ==
    \E c \in Calls, sid \in Sessions, m \in RaceMessages, platform \in Platforms,
       load \in 1..2 :
        /\ inflight[c].pc = "idle"
        /\ inflight' = [inflight EXCEPT ![c] =
                            [IdleCall EXCEPT !.pc = "loaded",
                                             !.session_id = sid,
                                             !.message = m,
                                             !.platform = platform,
                                             !.load_ok = (load = 1),
                                             !.seen = store[sid]]]
        /\ UNCHANGED <<store, flow_doc, flow_cache, age_ix, handoffs, received,
                       calls_made, script, last, ai_vars, start_vars>>

FinishCall ==
    \E c \in Calls :
        /\ inflight[c].pc = "loaded"
        /\ LET sid == inflight[c].session_id
               m == inflight[c].message
               platform == inflight[c].platform
               load == IF inflight[c].load_ok THEN 1 ELSE 2
               other == CHOOSE d \in Calls : d # c
           IN
           \E dry \in {process_message(m, sid, platform, SessionSeen(c), FS,
                                       Env(load, 1, 1, 1, 1))} :
           \E fetch \in 1..Draws(dry.calls, "get_conversation_flow"),
              refetch \in 1..Draws(dry.calls, "get_conversation_flow"),
              lead \in 1..Draws(dry.calls, "save_lead_data"),
              send \in 1..Draws(dry.calls, "save_lead_data") :
           \E env \in {Env(load, fetch, refetch, lead, send)} :
           \E out \in {process_message(m, sid, platform, SessionSeen(c), FS, env)} :
           \E save \in 1..Draws(out.calls, "save_user_session") :
               /\ EnvUsed(env, save = 1, out.calls)
               /\ store' = [store EXCEPT ![sid] = SaveAll(@, out.saves, save = 1)]
               /\ flow_doc' = out.fs.flow_doc
               /\ flow_cache' = out.fs.flow_cache
               /\ age_ix' = out.fs.age_ix
               /\ handoffs' = [handoffs EXCEPT ![sid] =
                                 IF out.lead # <<>> THEN @ + 1 ELSE @]
               /\ received' = [received EXCEPT ![sid] = @ + 1]
               /\ inflight' = [inflight EXCEPT ![c] =
                                 [@ EXCEPT !.pc = "done",
                                           !.save_ok = (save = 1),
                                           !.other_pc = inflight[other].pc,
                                           !.branch = out.branch,
                                           !.saves = out.saves,
                                           !.lead = out.lead,
                                           !.notification = out.notification]]
               /\ UNCHANGED <<calls_made, script, last, ai_vars, start_vars>>

NextRace == LoadSession \/ FinishCall

SpecRace == InitStored /\ [][NextRace]_vars

(***************************************************************************)
(* The AIOrchestrator on its own: initialize_model has set the model or,   *)
(* without an API key, left it None; its callers ask for responses and     *)
(* clear memories.                                                         *)
(***************************************************************************)
InitAI ==
    /\ store = [s \in Sessions |-> EmptyDoc]
    /\ InitCommon
    /\ flow_doc = <<>>
    /\ model \in BOOLEAN
    /\ conversations = [s \in AISessions |-> NoConversation]
    /\ ai_last = NoAICall
    /\ NoStart
    /\ NoRace

GenerateResponse ==
    \E sid \in ChatSessions, m \in AIMessages, invoke \in InvokeOutcomes,
       reply \in ModelReplies :
        /\ Len(conversations[sid].messages) < 2 * MaxExchanges
        /\ LET out == generate_response(m, sid, conversations, model, invoke, reply)
           IN  /\ conversations' = out.conversations
               /\ ai_last' = [op |-> "generate_response", session_id |-> sid,
                              message |-> m, model |-> model, invoke |-> invoke,
                              before |-> conversations[sid],
                              raised |-> out.raised, response |-> out.response,
                              configured |-> FALSE, status |-> ""]
        /\ UNCHANGED <<store, flow_doc, flow_cache, age_ix, handoffs, received,
                       calls_made, script, last, model, start_vars, race_vars>>

ClearMemory ==
    \E sid \in AISessions :
        /\ conversations[sid].exists
        /\ conversations' = clear_memory(conversations, sid)
        /\ ai_last' = [NoAICall EXCEPT !.op = "clear_memory", !.session_id = sid,
                                       !.model = model,
                                       !.before = conversations[sid]]
        /\ UNCHANGED <<store, flow_doc, flow_cache, age_ix, handoffs, received,
                       calls_made, script, last, model, start_vars, race_vars>>

\* the key that initialised the model is still in the environment
GetServiceStatus ==
    \E gemini_configured \in BOOLEAN, invoke \in InvokeOutcomes,
       reply \in HealthReplies :
        /\ model => gemini_configured
        /\ ~model => (invoke = "ok" /\ reply = "Ok.")
        /\ LET out == get_service_status(conversations, model, gemini_configured,
                                         invoke, reply)
           IN  /\ conversations' = out.conversations
               /\ ai_last' = [op |-> "get_service_status",
                              session_id |-> "health_check",
                              message |-> "Teste de conexao", model |-> model,
                              invoke |-> invoke,
                              before |-> conversations["health_check"],
                              raised |-> FALSE, response |-> out.response,
                              configured |-> gemini_configured,
                              status |-> out.status]
        /\ UNCHANGED <<store, flow_doc, flow_cache, age_ix, handoffs, received,
                       calls_made, script, last, model, start_vars, race_vars>>

NextAI == GenerateResponse \/ ClearMemory \/ GetServiceStatus

SpecAI == InitAI /\ [][NextAI]_vars

(***************************************************************************)
(* start_conversation (conversation.py, POST /conversation/start)          *)
(***************************************************************************)
\* the values of f"web_{uuid.uuid4().hex[:12]}"
WebIds == {"web_a", "web_b", "web_c", "web_d"}

\* a flow document without steps: no "steps" key, or an empty list
NoStepsFlow == [steps |-> <<>>, completion_message |-> "Obrigado!"]

\* a flow of one step, whose id is not 1
OneStepFlow ==
    [steps |-> <<BareStep(7, "Como podemos ajudar?")>>,
     completion_message |-> "Obrigado!"]

StartFlowDocs == FlowDocs \cup {<<NoStepsFlow>>, <<OneStepFlow>>}

LastOfSteps(flow) == flow.steps[Len(flow.steps)]

\* first_step = flow["steps"][0] (line 43)
first_step(flow) == flow.steps[1]

\* lines 21-62; session_id is the id uuid4 gave
start_conversation(session_id, doc, fetch_ok) ==
    LET got == get_conversation_flow(doc, fetch_ok)
    IN  IF got.raised
        THEN [status_code |-> 500, detail |-> "Failed to start conversation",
              session_id |-> "", question |-> "", step_id |-> 0,
              is_final_step |-> FALSE, flow_doc |-> got.flow_doc]
        ELSE IF got.flow.steps = <<>>
        THEN [status_code |-> 500, detail |-> "Conversation flow not configured",
              session_id |-> "", question |-> "", step_id |-> 0,
              is_final_step |-> FALSE, flow_doc |-> got.flow_doc]
        ELSE [status_code |-> 200, detail |-> "",
              session_id |-> session_id,
              question |-> first_step(got.flow).question,
              step_id |-> first_step(got.flow).id,
              is_final_step |-> (Len(got.flow.steps) = 1),
              flow_doc |-> got.flow_doc]

\* the flow document is what the administrators of the store left there
InitStart ==
    /\ store = [s \in Sessions |-> EmptyDoc]
    /\ flow_doc \in StartFlowDocs
    /\ flow_cache = <<>>
    /\ age_ix = 1
    /\ handoffs = [s \in Sessions |-> 0]
    /\ received = [s \in Sessions |-> 0]
    /\ calls_made = 0
    /\ script = [s \in Sessions |-> 0]
    /\ last = NoCall
    /\ AIUnused
    /\ NoStart
    /\ NoRace

\* uuid4 gives an id it has not given before
StartConversation ==
    \E session_id \in WebIds \ issued, fetch \in 1..2 :
        LET out == start_conversation(session_id, flow_doc, fetch = 1)
        IN  /\ flow_doc' = out.flow_doc
            /\ issued' = IF out.status_code = 200
                          THEN issued \cup {session_id} ELSE issued
            /\ start_last' =
                  [op |-> "start_conversation", fetch_ok |-> (fetch = 1),
                   before_doc |-> flow_doc, before_issued |-> issued,
                   status_code |-> out.status_code, detail |-> out.detail,
                   session_id |-> out.session_id, question |-> out.question,
                   step_id |-> out.step_id,
                   is_final_step |-> out.is_final_step]
            /\ UNCHANGED <<store, flow_cache, age_ix, handoffs, received,
                           calls_made, script, last, ai_vars, race_vars>>

NextStart == StartConversation

SpecStart == InitStart /\ [][NextStart]_vars

(***************************************************************************)
(* Reading a session document, with the defaults the code reads it with    *)
(* (session_data.get("current_step", 1) and so on), and the last call.     *)
(***************************************************************************)
CurrentStep(doc) == Get(doc, "current_step", 1)
Responses(doc) == Get(doc, "responses", {})
FlowCompleted(doc) == Get(doc, "flow_completed", FALSE)
PhoneCollected(doc) == Get(doc, "phone_collected", FALSE)
MessageCount(doc) == Get(doc, "message_count", 0)

\* the session the last call worked on: the document it loaded, or the one
\* it created
LastSession ==
    _get_or_create_session(last.session_id, last.platform, last.before,
                           last.env.load_ok)

\* the flow _get_conversation_flow gave the last call: the fallback when the
\* fetch it made raised, else the cached flow
FlowUsed ==
    IF Count(last.calls, "get_conversation_flow") > 0 /\ ~last.env.fetch_ok
    THEN MinimalFlow
    ELSE flow_cache[1]

\* no collaborator failed during the last call
NoFailure == last.env = AllOk /\ last.save_ok

\* the last call was a process_message call on the web platform for a
\* session that is at step n of the flow with the flow not completed, and
\* the step classifier accepts its message for step n
ClassifierAccepted(n) ==
    /\ last.op = "process_message"
    /\ last.platform = "web"
    /\ ~FlowCompleted(LastSession)
    /\ CurrentStep(LastSession) = n
    /\ IsStepResponse[last.message][n]

(***************************************************************************)
(* C1.  For a web session created by process_message and a flow whose      *)
(* steps have ids 1..K: once K messages have been sent in order, the i-th  *)
(* accepted by the step classifier and by the normalizer for step i, the   *)
(* stored session has flow_completed = true and exactly K responses.       *)
(***************************************************************************)
C1_ScriptedAnswersCompleteFlow ==
    \A s \in Sessions :
        script[s] = Len(ServedFlow.steps) =>
            /\ FlowCompleted(store[s])
            /\ Cardinality(Responses(store[s])) = Len(ServedFlow.steps)

(***************************************************************************)
(* C2.  When process_message on a web session at step n receives a message *)
(* the classifier accepts and the normalizer normalizes, and the flow has  *)
(* a step n+1, then the stored session holds the normalized value under    *)
(* the field of step n and current_step n+1, and the returned text is the  *)
(* prompt of step n+1.                                                     *)
(***************************************************************************)
C2_AcceptedAnswerAdvances ==
    \A n \in StepIds :
        (/\ ClassifierAccepted(n)
         /\ NoFailure
         /\ Normalized[last.message][n].ok
         /\ FindStep(FlowUsed.steps, n) # <<>>
         /\ FindStep(FlowUsed.steps, n + 1) # <<>>)
        => LET stored == store[last.session_id]
               here == FindStep(FlowUsed.steps, n)[1]
               there == FindStep(FlowUsed.steps, n + 1)[1]
           IN  /\ RespGet(Responses(stored), FieldName(here), <<>>)
                      = Normalized[last.message][n].value
               /\ CurrentStep(stored) = n + 1
               /\ last.result.response = <<there.question>>

(***************************************************************************)
(* C3.  For every step n, a message that the step classifier accepts for   *)
(* step n and the normalizer rejects leaves current_step, responses and    *)
(* flow_completed of the stored session as they were, and process_message  *)
(* returns the error text configured for step n, or the prompt of step n   *)
(* when the step has no error text.                                        *)
(***************************************************************************)
C3_RejectedAnswerKeepsStep ==
    \A n \in StepIds :
        (/\ ClassifierAccepted(n)
         /\ ~Normalized[last.message][n].ok
         /\ FindStep(FlowUsed.steps, n) # <<>>)
        => LET stored == store[last.session_id]
               step == FindStep(FlowUsed.steps, n)[1]
           IN  /\ CurrentStep(stored) = CurrentStep(last.before)
               /\ Responses(stored) = Responses(last.before)
               /\ FlowCompleted(stored) = FlowCompleted(last.before)
               /\ last.result.response =
                      <<IF "error_message" \in step.keys
                        THEN step.error_message ELSE step.question>>

\* "contrato" sent at step 2 of the default flow: a legal-area keyword of
\* the classifier that the normalizer does not know; the reply is the error
\* text of step 2
C3_Witness ==
    /\ ClassifierAccepted(2)
    /\ last.message = "contrato"
    /\ ~Normalized["contrato"][2].ok
    /\ last.branch = "step"
    /\ CurrentStep(store[last.session_id]) = 2
    /\ last.result.response = <<DefaultFlow.steps[2].error_message>>

(***************************************************************************)
(* C4.  Every process_message call handled by the off-topic/redirect       *)
(* branch leaves current_step and responses of the stored session exactly  *)
(* as they were before the call.                                           *)
(***************************************************************************)
C4_RedirectKeepsProgress ==
    (last.op = "process_message" /\ last.branch = "redirect")
    => LET stored == store[last.session_id]
       IN  /\ CurrentStep(stored) = CurrentStep(last.before)
           /\ Responses(stored) = Responses(last.before)

(***************************************************************************)
(* C5.  A process_message call with platform "whatsapp" never enters the   *)
(* structured flow (classifier, normalizer, advancement), whatever the     *)
(* message and the current step: current_step, responses and               *)
(* flow_completed of the stored session are unchanged by it.               *)
(***************************************************************************)
C5_GatewayKeepsFlowState ==
    (last.op = "process_message" /\ last.platform = "whatsapp")
    => LET stored == store[last.session_id]
       IN  /\ last.branch \in {"whatsapp", "phone"}
           /\ CurrentStep(stored) = CurrentStep(last.before)
           /\ Responses(stored) = Responses(last.before)
           /\ FlowCompleted(stored) = FlowCompleted(last.before)

(***************************************************************************)
(* C6.  Once phone_collected is true for a session, a process_message call *)
(* with a digit-shaped (10 to 13 digits) message submits no lead record    *)
(* and dispatches no notification, and the message is handled by the       *)
(* conversational/off-topic path.                                          *)
(***************************************************************************)
C6_CollectedPhoneFallsThrough ==
    (/\ last.op = "process_message"
     /\ PhoneCollected(last.before)
     /\ IsPhoneNumber[last.message])
    => /\ last.lead = <<>>
       /\ last.notification = <<>>
       /\ last.branch \in {"redirect", "whatsapp"}

(***************************************************************************)
(* C7.  In every reachable state of the session store, a session with      *)
(* phone_collected = true has flow_completed = true.                       *)
(***************************************************************************)
C7_PhoneOnlyAfterCompletion ==
    \A s \in Sessions : PhoneCollected(store[s]) => FlowCompleted(store[s])

(***************************************************************************)
(* C8.  While flow_completed is false, the current_step stored after a     *)
(* process_message call is its value before the call or that value plus    *)
(* one, also when a load or a save of the session fails during the call.   *)
(***************************************************************************)
C8_StepMovesForwardByOne ==
    (last.op = "process_message" /\ ~FlowCompleted(last.before))
    => LET before == CurrentStep(last.before)
       IN  CurrentStep(store[last.session_id]) \in {before, before + 1}

(***************************************************************************)
(* C9.  flow_completed of a session goes from false to true only in the    *)
(* process_message call that accepts the answer to the last step of the    *)
(* flow, and once it is true no call stores it as false again.             *)
(***************************************************************************)
C9_CompletedOnceForGood ==
    last.op # "none" =>
        LET stored == store[last.session_id]
        IN  /\ FlowCompleted(last.before) => FlowCompleted(stored)
            /\ (~FlowCompleted(last.before) /\ FlowCompleted(stored))
               => /\ last.op = "process_message"
                  /\ last.branch = "step"
                  /\ CurrentStep(LastSession)
                        = FlowUsed.steps[Len(FlowUsed.steps)].id

(***************************************************************************)
(* C10.  The message_count stored for a session equals the number of       *)
(* process_message calls made for it, whichever branch handled each: a     *)
(* call during which no collaborator fails, on a session whose stored      *)
(* count was right, leaves the stored count right.                         *)
(***************************************************************************)
C10_StoredCountIsCallCount ==
    (/\ last.op = "process_message"
     /\ NoFailure
     /\ MessageCount(last.before) = received[last.session_id] - 1)
    => MessageCount(store[last.session_id]) = received[last.session_id]


(***************************************************************************)
(* C11.  In every reachable state the current_step of a session is at most *)
(* the largest step id of the active flow definition plus one.             *)
(***************************************************************************)
\* the largest step id of a flow
LastStepId(flow) ==
    CHOOSE k \in {flow.steps[i].id : i \in 1..Len(flow.steps)} :
        \A i \in 1..Len(flow.steps) : flow.steps[i].id <= k

C11_StepWithinFlow ==
    \A s \in Sessions : CurrentStep(store[s]) <= LastStepId(ServedFlow) + 1

\* an answer the classifier and the normalizer accept for the last step of
\* the flow has been processed for a session at that step
C11_Witness ==
    /\ ClassifierAccepted(LastStepId(ServedFlow))
    /\ last.branch = "step"
    /\ NoFailure
    /\ Normalized[last.message][LastStepId(ServedFlow)].ok
    /\ CurrentStep(last.before) = LastStepId(ServedFlow)
    /\ CurrentStep(store[last.session_id]) = LastStepId(ServedFlow)


(***************************************************************************)
(* C12.  While flow_completed is false the responses of a session only     *)
(* grow (a call removes or overwrites no entry) and hold one entry per     *)
(* step already answered: after the first k answers of the flow, sent in   *)
(* order and accepted, the stored responses have k entries.                *)
(***************************************************************************)
C12_ResponsesGrowWithAnswers ==
    /\ \A s \in Sessions :
          (/\ ~FlowCompleted(store[s])
           /\ script[s] >= 0
           /\ script[s] < Len(ServedFlow.steps))
          => Cardinality(Responses(store[s])) = script[s]
    /\ (last.op = "process_message" /\ ~FlowCompleted(last.before))
       => Responses(last.before) \subseteq Responses(store[last.session_id])


(***************************************************************************)
(* C13.  Phone canonicalization in _handle_phone_collection: ten digits    *)
(* become 55, the two digits of the area code, an inserted 9 and the other *)
(* eight digits; eleven digits become 55 and the digits; twelve or         *)
(* thirteen digits that begin with 55 are kept as they are.  The text      *)
(* "11987654321" gives phone_collected = true, the formatted number        *)
(* 5511987654321 and a confirmation that contains 11987654321.             *)
(***************************************************************************)
C13_PhoneCanonicalForm ==
    (last.op # "none" /\ last.captured)
    => LET d == PhoneClean[last.message]
           saved == last.saves[1]
       IN  /\ saved.phone_collected
           /\ Len(d) = 10 =>
                 saved.phone_formatted
                    = "55" \o Str(SubSeq(d, 1, 2)) \o "9" \o Str(SubSeq(d, 3, 10))
           /\ Len(d) = 11 => saved.phone_formatted = "55" \o Str(d)
           /\ (Len(d) \in {12, 13} /\ d[1] = "5" /\ d[2] = "5")
                 => saved.phone_formatted = Str(d)
           /\ last.message = "11987654321" =>
                 /\ saved.phone_formatted = "5511987654321"
                 /\ last.result.phone_collected
                 /\ \E i \in 1..Len(last.result.response) :
                       last.result.response[i] = "11987654321"

\* the ten digits 1198765432 were captured and stored as 5511998765432
C13_Witness ==
    /\ last.op = "submit_phone"
    /\ last.message = "1198765432"
    /\ last.captured
    /\ last.save_ok
    /\ store[last.session_id].phone_formatted = "5511998765432"
    /\ PhoneCollected(store[last.session_id])


(***************************************************************************)
(* C14.  When the notification dispatch fails during a phone capture the   *)
(* request still succeeds: phone_collected is true, and the confirmation   *)
(* holds the captured digits and the delivery-problem wording; when the    *)
(* dispatch succeeds it holds the digits and the delivery-success wording. *)
(***************************************************************************)
\* the text `piece` is part of the returned text
InResponse(piece) ==
    \E i \in 1..Len(last.result.response) : last.result.response[i] = piece

C15_LeadFailureSwallowed ==
    (last.op # "none" /\ last.captured /\ ~last.env.lead_ok)
    => /\ last.lead # <<>>
       /\ last.notification # <<>>
       /\ Count(last.calls, "send_whatsapp_message") = 1
       /\ InResponse("Numero confirmado: ")
       /\ InResponse(Str(PhoneClean[last.message]))
       /\ ~InResponse(ProcessingErrorText)
       /\ last.op = "submit_phone" => last.result.status = "success"
       /\ last.op = "process_message"
             => last.result.response_type = "phone_collected"

\* a capture during which the lead was not saved and the dispatch succeeded
C15_Witness ==
    /\ last.op = "submit_phone"
    /\ last.captured
    /\ ~last.env.lead_ok
    /\ last.env.send_ok
    /\ last.notification # <<>>
    /\ InResponse(DeliveredText)

\* the flow whose prompts the last call had at hand: the one it was given
\* when it asked for the flow, else the cached one, else the served one
FlowAtHand ==
    IF Count(last.calls, "get_conversation_flow") > 0 THEN FlowUsed
    ELSE IF flow_cache # <<>> THEN flow_cache[1]
    ELSE ServedFlow

\* the last call went through a branch that uses the off-topic handler for
\* a session whose current step is a step of the flow
UsedOffTopicHandler ==
    /\ last.op = "process_message"
    /\ last.branch \in {"whatsapp", "redirect"}
    /\ FindStep(FlowAtHand.steps, CurrentStep(LastSession)) # <<>>

\* C16: on the web redirect branch and on the messaging-gateway branch, the
\* text returned is the canned off-topic reply followed by the prompt of the
\* session's current step when the off-topic handler has a reply for the
\* message, and exactly the prompt of the current step when it has none
C16_CannedReplyThenPrompt ==
    UsedOffTopicHandler
    => LET current_step == CurrentStep(LastSession)
           prompt == FindStep(FlowAtHand.steps, current_step)[1].question
           canned == OffTopicResponse[last.message][current_step]
       IN  last.result.response =
               IF canned # None THEN <<canned, prompt>> ELSE <<prompt>>

PricingReply == off_topic_patterns[1].response

\* C17: for a web session that has not completed the flow and is at step n
\* (n = 1..4), process_message with "quanto custa?" takes the off-topic
\* branch: the text returned is the pricing reply followed by the prompt of
\* step n, and the responses of the session are left as they were
C17_PricingQuestionIsOffTopic ==
    \A n \in 1..4 :
        ( /\ last.op = "process_message"
          /\ last.platform = "web"
          /\ last.message = "quanto custa?"
          /\ last.env.load_ok
          /\ ~FlowCompleted(LastSession)
          /\ CurrentStep(LastSession) = n
          /\ FindStep(FlowAtHand.steps, n) # <<>> )
        => /\ last.branch = "redirect"
           /\ last.result.off_topic_handled
           /\ last.result.response =
                  <<PricingReply, FindStep(FlowAtHand.steps, n)[1].question>>
           /\ Responses(store[last.session_id]) = Responses(last.before)

\* C18: for a web session at step 2 with the flow not completed, the
\* message "socorro" leaves current_step at 2 and the text returned is the
\* error text configured for step 2
C18_UnknownAreaGetsErrorText ==
    ( /\ last.op = "process_message"
      /\ last.platform = "web"
      /\ last.message = "socorro"
      /\ NoFailure
      /\ ~FlowCompleted(LastSession)
      /\ CurrentStep(LastSession) = 2
      /\ FindStep(FlowAtHand.steps, 2) # <<>> )
    => /\ CurrentStep(store[last.session_id]) = 2
       /\ last.result.response =
              <<ErrorPrompt(FindStep(FlowAtHand.steps, 2)[1])>>

ResponseTypes ==
    {"phone_collected", "gemini_whatsapp", "whatsapp_fallback",
     "firebase_step", "firebase_redirect", "error"}

\* C19: whatever the message, the stored session and the collaborators that
\* fail during the call, process_message hands its caller a result that
\* carries a response_type and a response text: no exception leaves it
C19_AlwaysOneResult ==
    last.op = "process_message"
    => /\ last.branch # "raised"
       /\ {"response_type", "response"} \subseteq last.result.keys
       /\ last.result.response_type \in ResponseTypes
       /\ last.result.response # <<>>

\* a call whose step handler raised while the session load and both calls
\* of the flow source failed
C19_Witness ==
    /\ last.op = "process_message"
    /\ last.branch = "step"
    /\ Normalized[last.message][CurrentStep(LastSession)].ok
    /\ ~last.env.load_ok
    /\ ~last.env.fetch_ok
    /\ ~last.env.refetch_ok
    /\ last.result.response_type = "firebase_step"

\* C20: when the call of the flow source fails while no flow is cached, the
\* process_message call that needed the flow returns a result of type error
C20_FlowFetchFailureIsError ==
    ( /\ last.op = "process_message"
      /\ Count(last.calls, "get_conversation_flow") > 0
      /\ ~last.env.fetch_ok
      /\ flow_cache = <<>> )
    => last.result.response_type = "error"

\* C21: when the session store cannot be read while process_message loads
\* the session, the caller gets a result of type error, and the request is
\* not worked on a newly created session
C21_LoadFailureSurfaced ==
    (last.op = "process_message" /\ ~last.env.load_ok)
    => /\ last.result.response_type = "error"
       /\ last.saves = <<>>

\* the last call of generate_response could not get a reply: the model was
\* not initialised, or chain.ainvoke timed out or raised
NoReply ==
    /\ ai_last.op = "generate_response"
    /\ (~ai_last.model \/ ai_last.invoke # "ok")

\* C22: generate_response never propagates a failure: when the model is not
\* initialised, times out or raises, the caller gets the canned fallback
\* text, and the messages and the count recorded for the session are what
\* they were before the call
C22_FallbackKeepsHistory ==
    /\ ai_last.op = "generate_response" => ~ai_last.raised
    /\ NoReply
       => /\ ai_last.response = _get_fallback_response
          /\ conversations[ai_last.session_id].messages = ai_last.before.messages
          /\ conversations[ai_last.session_id].message_count
                = ai_last.before.message_count

\* a timeout for a session that has an exchange on record
C22_Witness ==
    /\ NoReply
    /\ ai_last.model
    /\ ai_last.invoke = "timeout"
    /\ ai_last.before.messages # <<>>
    /\ ai_last.response = _get_fallback_response

\* the last call was a process_message call that asked _get_conversation_flow
\* for the flow
AskedForFlow ==
    /\ last.op = "process_message"
    /\ \/ last.branch \in {"step", "redirect"}
       \/ /\ last.branch = "whatsapp"
          /\ OffTopicResponse[last.message][CurrentStep(LastSession)] = None

\* C23: a cached flow that is more than 300 seconds old is not served: the
\* call refetches from the flow source first.  (A call that refetched with
\* success leaves the age at 0; the age is otherwise the one the call found.)
C23_StaleCacheRefetched ==
    (AskedForFlow /\ flow_cache # <<>> /\ AgePoints[age_ix] > 300)
    => Count(last.calls, "get_conversation_flow") > 0

\* the flow the flow source serves to the last start_conversation call: the
\* stored document, or the default flow it creates when there is none
StartServed ==
    IF start_last.before_doc # <<>> THEN start_last.before_doc[1]
    ELSE DefaultFlow

\* the last start_conversation call has to fail: the flow source raised, or
\* the flow it served has no steps
StartMustFail == ~start_last.fetch_ok \/ StartServed.steps = <<>>

C25_ContextMirrorsStore ==
    last.op = "get_session_context"
    => LET stored == last.before
           view == last.result
       IN  /\ store[last.session_id] = stored
           /\ last.saves = <<>>
           /\ stored.has = {} => ~view.exists
           /\ stored.has # {}
              => /\ view.exists
                 /\ \A k \in {"current_step", "flow_completed", "phone_collected",
                              "responses", "message_count"} :
                        k \in stored.has => view[k] = stored[k]

\* C26: the platform stored for a session is the platform of the call that
\* created it: a process_message call that finds no stored session stores
\* its own platform, and one that finds a stored session leaves the stored
\* platform as it is, whatever its platform argument
C26_PlatformFixedAtCreation ==
    last.op = "process_message"
    => /\ ("platform" \in last.before.has)
          => /\ "platform" \in store[last.session_id].has
             /\ store[last.session_id].platform = last.before.platform
       /\ (last.before.has = {} /\ last.save_ok /\ last.saves # <<>>)
          => store[last.session_id].platform = last.platform

\* tokens of the affirmative and of the negative lexicon
YesNoLexicon == {<<"s","i","m">>, <<"n","a~","o">>}

\* the messages that hold a token of the affirmative or negative lexicon
YesNoMessages ==
    {m \in Messages : \E t \in YesNoLexicon : Contains(Lower(MessageText(m)), t)}

\* C27: at step 4 the step classifier accepts a message exactly when it holds
\* a token of the affirmative or negative lexicon: a web call for a session
\* at step 4 takes the structured-step branch for a yes/no answer, and for
\* no other message
C27_StepFourAcceptsYesNo ==
    ( /\ last.op = "process_message"
      /\ last.platform = "web"
      /\ last.env.load_ok
      /\ ~FlowCompleted(LastSession)
      /\ CurrentStep(LastSession) = 4 )
    => /\ IsStepResponse[last.message][4] <=> (last.message \in YesNoMessages)
       /\ (last.branch = "step") <=> (last.message \in YesNoMessages)

\* C28: a submit_phone call for a session whose phone_collected is already
\* true hands no further lead to the lead store and no further notification
\* to the dispatch service
C28_SubmitPhoneOnceOnly ==
    (last.op = "submit_phone" /\ PhoneCollected(last.before))
    => /\ last.lead = <<>>
       /\ last.notification = <<>>

\* the last call handed to the phone capture a text whose digits, the other
\* characters stripped, are fewer than 10 or more than 13
CaptureOfBadNumber ==
    /\ \/ last.op = "submit_phone"
       \/ last.op = "process_message" /\ last.branch = "phone"
    /\ LET digits == PhoneClean[last.message]
       IN  Len(digits) < 10 \/ Len(digits) > 13

\* C29: a phone capture given a text whose digit count is outside 10..13
\* fails: it returns the prompt that asks for a valid number, the stored
\* session is as it was before (phone_collected stays as it was), and
\* neither a lead nor a notification is handed over
C29_BadNumberRejected ==
    CaptureOfBadNumber
    => /\ last.result.response = <<InvalidNumberText>>
       /\ store[last.session_id] = last.before
       /\ last.saves = <<>>
       /\ PhoneCollected(store[last.session_id]) = PhoneCollected(last.before)
       /\ last.lead = <<>>
       /\ last.notification = <<>>

\* a stored session without a phone is handed a text of three digits
C29_Witness ==
    /\ CaptureOfBadNumber
    /\ last.op = "submit_phone"
    /\ Len(PhoneClean[last.message]) = 3
    /\ FlowCompleted(last.before)
    /\ ~PhoneCollected(store[last.session_id])
    /\ last.result.response = <<InvalidNumberText>>

\* C30: a process_message call that takes the structured-step branch, the
\* messaging-gateway branch or the phone-capture branch hands the session to
\* save_user_session exactly once
C30_OneSavePerBranch ==
    (last.op = "process_message" /\ last.branch \in {"step", "whatsapp", "phone"})
    => /\ Len(last.saves) = 1
       /\ Count(last.calls, "save_user_session") = 1

\* the positions of the calls of `name` in the calls of the last call
CallPositions(name) == {i \in 1..Len(last.calls) : last.calls[i] = name}

(***************************************************************************)
(* C31: within one phone capture the collaborator calls happen in a fixed  *)
(* order: the session save that carries phone_collected = true comes       *)
(* first, the lead record is submitted next, the notification is           *)
(* dispatched after it, and the confirmation is what the call returns.     *)
(***************************************************************************)
C31_CaptureCallOrder ==
    last.captured =>
        /\ \E i, j, k \in 1..Len(last.calls) :
            /\ i < j /\ j < k
            /\ CallPositions("save_user_session") = {i}
            /\ CallPositions("save_lead_data") = {j}
            /\ CallPositions("send_whatsapp_message") = {k}
        /\ Len(last.saves) = 1
        /\ Get(last.saves[1], "phone_collected", FALSE)
        /\ last.lead # <<>> /\ last.notification # <<>>
        /\ InResponse("Numero confirmado: ")

\* a completed session sends its number through process_message: the
\* number is captured
C31_Witness ==
    /\ last.op = "process_message"
    /\ last.branch = "phone"
    /\ last.captured
    /\ FlowCompleted(last.before)
    /\ last.calls = <<"get_user_session", "save_user_session",
                      "save_lead_data", "send_whatsapp_message">>

\* the answers of the lead record handed over by the last call
LeadRecordAnswers == last.lead[1].answers

(***************************************************************************)
(* C32: the lead record submitted at phone capture holds one answer entry  *)
(* for every step answer stored in the session's responses, whatever field *)
(* name the flow definition gave the step, and a final entry holding the   *)
(* captured phone digits.                                                  *)
(***************************************************************************)
C32_LeadCarriesEveryAnswer ==
    (last.captured /\ last.lead # <<>>) =>
        LET responses == Responses(last.saves[1])
            n == Len(LeadRecordAnswers)
        IN  /\ n = Cardinality(responses) + 1
            /\ \A r \in responses :
                 \E i \in 1..(n - 1) : LeadRecordAnswers[i].answer = Str(r.value)
            /\ LeadRecordAnswers[n].answer = last.saves[1].phone_number

\* the session the last call worked on: the stored one when it loaded it
LoadedSession == get_user_session(last.before, last.env.load_ok)

(***************************************************************************)
(* C33: for a step id without a classifier rule of its own (any id other   *)
(* than 1 to 4) the step classifier admits a non-empty message unless it   *)
(* matches one of the off-topic indicator phrases, so that a flow with     *)
(* more than four steps is taken past step 4: a message that is not        *)
(* off-topic, sent on the web to a session at step 5, is handled as the    *)
(* answer to that step.                                                    *)
(***************************************************************************)
C33_UnruledStepAdmitsAnswers ==
    (/\ last.op = "process_message"
     /\ last.platform = "web"
     /\ LoadedSession.has # {}
     /\ ~FlowCompleted(LoadedSession)
     /\ CurrentStep(LoadedSession) = 5
     /\ MessageText(last.message) # <<>>
     /\ OffTopicResponse[last.message][5] = None)
    => /\ IsStepResponse[last.message][5]
       /\ last.branch # "redirect"

(***************************************************************************)
(* C34: over any sequence of process_message calls at most one handoff     *)
(* (lead submission and notification dispatch) is performed per session,   *)
(* also when the session save that records phone_collected = true fails    *)
(* (save_user_session reports the failure by returning False).             *)
(***************************************************************************)
C34_OneHandoffPerSession == \A s \in Sessions : handoffs[s] <= 1

\* both calls have returned, and both read the session before either wrote
\* it: the call that returned first did so while the other held its copy
BothLoadedFirst ==
    /\ \A c \in Calls : inflight[c].pc = "done" /\ inflight[c].load_ok
    /\ \E c \in Calls : inflight[c].other_pc = "loaded"
    /\ \A c, d \in Calls : inflight[c].session_id = inflight[d].session_id

\* the session both calls read
RacedSession == inflight["a"].seen

\* the session id of the two calls
RacedId == inflight["a"].session_id

\* both calls carried a phone-shaped message for a session whose flow is
\* completed and whose phone is not collected
BothSentPhone ==
    /\ BothLoadedFirst
    /\ FlowCompleted(RacedSession) /\ ~PhoneCollected(RacedSession)
    /\ \A c \in Calls : IsPhoneNumber[inflight[c].message]

(***************************************************************************)
(* C35 (as stated): when two process_message calls with phone-shaped       *)
(* messages for the same session (flow_completed true, phone_collected     *)
(* false) are interleaved, at most one of them performs the handoff.       *)
(***************************************************************************)
C35_OneHandoffWhenInterleaved ==
    BothSentPhone =>
        Cardinality({c \in Calls : inflight[c].lead # <<>>}) <= 1

(***************************************************************************)
(* C35 (amended): when the two calls are interleaved so that both read the *)
(* session before either saves it, each of them performs the handoff: two  *)
(* lead records are submitted and two notifications dispatched.            *)
(***************************************************************************)
C35_BothHandOffWhenInterleaved ==
    BothSentPhone =>
        \A c \in Calls : /\ inflight[c].branch = "phone"
                         /\ inflight[c].lead # <<>>
                         /\ inflight[c].notification # <<>>

C35_Witness ==
    /\ BothSentPhone
    /\ \A c \in Calls : inflight[c].lead # <<>> /\ inflight[c].save_ok
    /\ PhoneCollected(store[RacedId])

(***************************************************************************)
(* C36 (as stated): when two process_message calls for the same session    *)
(* are interleaved so that both load the session before either saves it,   *)
(* the stored message_count afterwards has increased by two.               *)
(***************************************************************************)
C36_NoIncrementLost ==
    BothLoadedFirst =>
        MessageCount(store[RacedId]) = MessageCount(RacedSession) + 2

(***************************************************************************)
(* C36 (amended): under that interleaving the stored message_count has     *)
(* increased by at most one: each call writes the count it loaded plus     *)
(* one, so the last write wins and an increment is lost.  It has increased *)
(* by exactly one when a call saved the session.                           *)
(***************************************************************************)
C36_LastWriteWins ==
    BothLoadedFirst =>
        LET before == MessageCount(RacedSession)
            after == MessageCount(store[RacedId])
            saved == \E c \in Calls : inflight[c].saves # <<>> /\ inflight[c].save_ok
        IN  /\ after \in {before, before + 1}
            /\ saved => after = before + 1

C36_Witness ==
    /\ BothLoadedFirst
    /\ \A c \in Calls : inflight[c].saves # <<>> /\ inflight[c].save_ok
    /\ RacedSession.has # {}
    /\ MessageCount(store[RacedId]) = MessageCount(RacedSession) + 1

(***************************************************************************)
(* C37: a result of process_message or of handle_phone_number_submission   *)
(* reports phone_collected = true only if the phone number was captured in *)
(* that call (the session was updated with phone_collected = true); when   *)
(* _handle_phone_collection rejects the number or fails, the result does   *)
(* not report the phone as collected.                                      *)
(***************************************************************************)
C37_CollectedOnlyWhenCaptured ==
    (/\ last.op \in {"process_message", "submit_phone"}
     /\ "phone_collected" \in last.result.keys
     /\ last.result.phone_collected)
    => /\ last.captured
       /\ last.saves # <<>>
       /\ Get(last.saves[1], "phone_collected", FALSE)

\* the canonical number built for the text of the last call (lines 450-458)
CanonicalNumber == FormatPhone(PhoneClean[last.message])

(***************************************************************************)
(* C38: for every accepted phone input (10 to 13 digits once the           *)
(* non-digits are stripped) the canonical number built by                  *)
(* _handle_phone_collection is 12 or 13 digits long.                       *)
(***************************************************************************)
C38_CanonicalLength ==
    (last.op # "none" /\ last.captured)
    => /\ last.saves[1].phone_formatted = Str(CanonicalNumber)
       /\ Len(CanonicalNumber) \in {12, 13}

\* the health check of the last get_service_status call got a reply from
\* the model
ModelAnswered == ai_last.model /\ ai_last.invoke = "ok"

(***************************************************************************)
(* C39: AIOrchestrator.get_service_status reports the status "active" only *)
(* when the health-check call to the model produced a model response; when *)
(* the model call fails, and generate_response degrades to the canned      *)
(* fallback text, the reported status is not "active".                     *)
(***************************************************************************)
C39_ActiveOnlyWhenModelAnswers ==
    (ai_last.op = "get_service_status" /\ ai_last.status = "active")
    => /\ ModelAnswered
       /\ ai_last.response # _get_fallback_response

=============================================================================
